---- MODULE Spec2Model ----
(***************************************************************************)
(* Verification model of the dynamic-prefix-operator.                      *)
(*                                                                         *)
(* IPv6 addresses are modelled as AddrBits-bit unsigned integers (the      *)
(* source uses 128 bits); all address arithmetic is carried out modulo     *)
(* 2^AddrBits exactly as the byte-wise carry/borrow loops of the source do *)
(* modulo 2^128.  A netip.Prefix is a record [addr, bits]; its String()    *)
(* form is canonical and injective, so a CIDR string is represented by the *)
(* record it parses to, and the empty string by NoPrefix.                  *)
(***************************************************************************)
EXTENDS Integers, Sequences, FiniteSets, TLC

\* ------------------------------------------------------------------------
\* Bounds of the model
\* ------------------------------------------------------------------------
AddrBits == 4
NumPrefixes == 2
MaxHistoryOption == 2
MaxReceivers == 2
EventBuffer == 2
MaxClock == 1
MaxFaults == 1
MaxStarts == 2
StopDeadline == 2
MaxConsecutive == 4
ChildBuffer == 1
MaxCompositeStarts == 1
MaxOffset == 3
LifetimeStep == 10
MaxTimerSteps == 2
MaxIAPrefixes == 2
MaxExchange == 3
MaxAge == 20

MaxOptions == 2

MaxInstances == 1

\* ------------------------------------------------------------------------
\* Program constants
\* ------------------------------------------------------------------------
DefaultMaxHistory == 2
BaseLen == 2

\* Seconds: the read deadline of the RA worker and the pause of the
\* DHCPv6-PD worker before it tries again to acquire a prefix.
ReadDeadline == 1
RetryInterval == 10
Minute == 60

Workers == {"w1", "w2"}

FirstWorker == "w1"

Pow2(n) == 2 ^ n

AddrSpace == Pow2(AddrBits)

\* The nil *Prefix of a receiver and the empty status.currentPrefix string.
NoPrefix == [addr |-> 0 - 1, bits |-> 0 - 1]

\* Delegated prefixes the upstream may hand out: distinct /BaseLen networks.
Prefixes == {[addr |-> i * Pow2(AddrBits - BaseLen), bits |-> BaseLen] : i \in 1..NumPrefixes}

\* netip.Addr.Prefix(b): keep the top b bits of the address.
MaskAddr(a, b) == a - (a % Pow2(AddrBits - b))

\* netip.Prefix.Contains
Contains(p, a) == MaskAddr(a, p.bits) = MaskAddr(p.addr, p.bits)

\* ------------------------------------------------------------------------
\* Subnet arithmetic
\* ------------------------------------------------------------------------
SubnetErr(e) == [err |-> e, cidr |-> NoPrefix]

CalculateSubnet(base, cfg) ==
    IF cfg.prefixLength < base.bits THEN SubnetErr("SubnetTooShort")
    ELSE IF cfg.prefixLength > AddrBits THEN SubnetErr("SubnetLengthInvalid")
    ELSE LET subnetSize == Pow2(AddrBits - cfg.prefixLength)
             subnetInt  == base.addr + cfg.offset * subnetSize
         IN  IF subnetInt >= AddrSpace
             THEN SubnetErr("panic")
             ELSE [err |-> "", cidr |-> [addr |-> MaskAddr(subnetInt, cfg.prefixLength),
                                         bits |-> cfg.prefixLength]]

RECURSIVE CalculateSubnets(_, _)
CalculateSubnets(base, configs) ==
    IF configs = <<>> THEN [err |-> "", subnets |-> <<>>]
    ELSE LET s    == CalculateSubnet(base, Head(configs))
             rest == CalculateSubnets(base, Tail(configs))
         IN  IF s.err # "" THEN [err |-> s.err, subnets |-> <<>>]
             ELSE IF rest.err # "" THEN rest
             ELSE [err |-> "", subnets |-> <<[name |-> Head(configs).name, cidr |-> s.cidr]>> \o rest.subnets]

\* ------------------------------------------------------------------------
\* The DynamicPrefix resource in the declarative store
\* ------------------------------------------------------------------------
SubnetChoices == {<<>>, <<[name |-> "lb", offset |-> 1, prefixLength |-> BaseLen + 1]>>}

EmptyStatus == [currentPrefix |-> NoPrefix, history |-> <<>>, subnets |-> <<>>,
                addressRanges |-> <<>>, acquired |-> "", degraded |-> ""]

DefaultSpec == [maxPrefixHistory |-> 0, mode |-> "unset", subnets |-> <<>>, addressRanges |-> <<>>]

Absent == [exists |-> FALSE, deleting |-> FALSE, finalizer |-> FALSE, foreign |-> FALSE,
           spec |-> DefaultSpec, status |-> EmptyStatus]

\* Effective maxPrefixHistory: default 2 when the transition block or field is unset.
MaxHistoryOf(spec) ==
    IF spec.maxPrefixHistory > 0 THEN spec.maxPrefixHistory ELSE DefaultMaxHistory

LimitHistoryKeepAll(h, maxHistory) == h

LimitHistoryKeepOldest(h, maxHistory) ==
    IF Len(h) > maxHistory THEN SubSeq(h, 1, maxHistory) ELSE h

LimitHistory(h, maxHistory) ==
    IF Len(h) > maxHistory THEN SubSeq(h, Len(h) - maxHistory + 1, Len(h)) ELSE h

handlePrefixChange(st, spec) ==
    IF st.currentPrefix # NoPrefix
    THEN [st EXCEPT !.history =
            LimitHistory(Append(@, [prefix |-> st.currentPrefix, state |-> "draining"]),
                         MaxHistoryOf(spec))]
    ELSE st

\* Status written by a reconcile that found no current prefix on the receiver.
StatusWaiting(st) == [st EXCEPT !.acquired = "WaitingForPrefix"]

prefixChangedAlways(st, cur) == TRUE

\* prefixChanged of Reconcile: the stored currentPrefix string differs from
\* the string of the receiver's network.
prefixChanged(st, cur) == st.currentPrefix # cur

\* Status written by a reconcile that found the receiver holding prefix cur.
StatusAcquired(st, spec, cur) ==
    LET st1  == IF prefixChanged(st, cur) THEN handlePrefixChange(st, spec) ELSE st
        calc == CalculateSubnets(cur, spec.subnets)
    IN  [st1 EXCEPT !.currentPrefix = cur,
                    !.subnets  = IF calc.err = "" THEN calc.subnets ELSE @,
                    !.degraded = IF calc.err = "" THEN "Healthy" ELSE "SubnetCalculationFailed",
                    !.acquired = "PrefixAcquired"]

\* The DynamicPrefix in the store and the state of its reconciler.
VARIABLES dp, receivers, recv, receiversMu, queue, timer, wk

\* Downstream pool resources and the work queue of the pool projection controller.
VARIABLES pools, poolQueue, poolTimer, poolSynced

\* LoadBalancer services and the work queue of the HA service controller.
VARIABLES services, svcQueue, svcTimer, svcResult

\* Wall clock (seconds, as far as RFC3339 shows it) and transient store faults so far.
VARIABLES now, faults

\* One prefix receiver (RA, DHCPv6-PD or mock) driven through its interface.
VARIABLES rxKind, rxStarted, rxStopCh, rxRet, rxGen, rxPc, rxCtx,
          rxSleep, rxStopAge, rxCur, rxEvents, rxBlocked, rxRead

\* A composite receiver with its primary and its fallback.
VARIABLES cStarted, cStopCh, cPanic, cMerge, cActive, cFailures, cEvents, child

\* The lease state of a DHCPv6-PD client and the worker that maintains it.
VARIABLES pdLease, pdCur, pdAge, pdElapsed, pdPc, pdLast, pdSent, pdExpired

\* The arguments and the result of a call of CalculateSubnet and of the
\* receiver factory.
VARIABLES subnetArgs, subnetResult, acquisition, created

\* The options of a Router Advertisement and the option the RA receiver
\* selects from it.
VARIABLES advertisement, selected

\* The locks of the receiver registry, of a composite receiver and of its
\* children, with the threads that take them.
VARIABLES lk

ctrlVars == <<dp, receivers, recv, receiversMu, queue, timer, wk>>

ctrlRest == <<receivers, recv, receiversMu, queue, timer, wk>>

poolVars == <<pools, poolQueue, poolTimer, poolSynced>>

svcVars == <<services, svcQueue, svcTimer, svcResult>>

envVars == <<now, faults>>

rxVars == <<rxKind, rxStarted, rxStopCh, rxRet, rxGen, rxPc, rxCtx,
           rxSleep, rxStopAge, rxCur, rxEvents, rxBlocked, rxRead>>

compVars == <<cStarted, cStopCh, cPanic, cMerge, cActive, cFailures, cEvents, child>>

fnVars == <<subnetArgs, subnetResult, acquisition, created, advertisement, selected>>

pdVars == <<pdLease, pdCur, pdAge, pdElapsed, pdPc, pdLast, pdSent, pdExpired>>

unitVars == <<rxVars, compVars, fnVars, pdVars, lk>>

downVars == <<poolVars, svcVars, envVars, unitVars>>

vars == <<ctrlVars, poolVars, svcVars, envVars, unitVars>>

IdleWorker == [pc |-> "idle", stale |-> FALSE, obs |-> "", r |-> 0, cur |-> NoPrefix]

NewReceiver == [state |-> "unborn", cur |-> NoPrefix, events |-> 0]

CtrlInit ==
    /\ dp = Absent
    /\ receivers = 0
    /\ recv = [r \in 1..MaxReceivers |-> NewReceiver]
    /\ receiversMu = ""
    /\ queue = FALSE
    /\ timer = FALSE
    /\ wk = [w \in Workers |-> IdleWorker]

\* ------------------------------------------------------------------------
\* Users and other controllers acting on the DynamicPrefix in the store
\* ------------------------------------------------------------------------
\* A write to the stored object makes every snapshot held by an in-flight
\* reconcile out of date: its next write fails with a conflict.
Invalidated(ws) ==
    [w \in Workers |-> IF ws[w].pc # "idle" THEN [ws[w] EXCEPT !.stale = TRUE] ELSE ws[w]]

UserCreate ==
    /\ ~dp.exists
    /\ \E sn \in SubnetChoices, m \in 0..MaxHistoryOption, f \in BOOLEAN :
          dp' = [Absent EXCEPT !.exists = TRUE, !.foreign = f,
                               !.spec.subnets = sn, !.spec.maxPrefixHistory = m]
    /\ queue' = TRUE
    /\ wk' = Invalidated(wk)
    /\ UNCHANGED <<receivers, recv, receiversMu, timer>>
    /\ UNCHANGED downVars

UserDelete ==
    /\ dp.exists /\ ~dp.deleting
    /\ dp' = IF dp.finalizer \/ dp.foreign THEN [dp EXCEPT !.deleting = TRUE] ELSE Absent
    /\ queue' = TRUE
    /\ wk' = Invalidated(wk)
    /\ UNCHANGED <<receivers, recv, receiversMu, timer>>
    /\ UNCHANGED downVars

UserSetMaxPrefixHistory ==
    /\ dp.exists
    /\ \E m \in 0..MaxHistoryOption :
          /\ m # dp.spec.maxPrefixHistory
          /\ dp' = [dp EXCEPT !.spec.maxPrefixHistory = m]
    /\ queue' = TRUE
    /\ wk' = Invalidated(wk)
    /\ UNCHANGED <<receivers, recv, receiversMu, timer>>
    /\ UNCHANGED downVars

ForeignFinalizerRemoved ==
    /\ dp.exists /\ dp.foreign
    /\ dp' = IF dp.deleting /\ ~dp.finalizer THEN Absent ELSE [dp EXCEPT !.foreign = FALSE]
    /\ queue' = TRUE
    /\ wk' = Invalidated(wk)
    /\ UNCHANGED <<receivers, recv, receiversMu, timer>>
    /\ UNCHANGED downVars

\* ------------------------------------------------------------------------
\* Receivers: prefix updates, lease expiry and failures
\* ------------------------------------------------------------------------
EventTypeForNoRenewal(old, new) ==
    IF old = NoPrefix THEN "acquired" ELSE "changed"

EventTypeForAfterFirst(old, new) ==
    IF old # new THEN "changed" ELSE "renewed"

EventTypeFor(old, new) ==
    IF old = NoPrefix THEN "acquired"
    ELSE IF old # new THEN "changed"
    ELSE "renewed"

\* Non-blocking send: the event is dropped when the buffer is full.
sendEvent(n) == IF n < EventBuffer THEN n + 1 ELSE n

RecvUpdate(r) ==
    /\ recv[r].state = "running"
    /\ \E p \in Prefixes :
          recv' = [recv EXCEPT ![r].cur = p, ![r].events = sendEvent(@)]
    /\ UNCHANGED <<dp, receivers, receiversMu, queue, timer, wk>>
    /\ UNCHANGED downVars

RecvExpire(r) ==
    /\ recv[r].state = "running"
    /\ recv[r].cur # NoPrefix
    /\ recv' = [recv EXCEPT ![r].cur = NoPrefix, ![r].events = sendEvent(@)]
    /\ UNCHANGED <<dp, receivers, receiversMu, queue, timer, wk>>
    /\ UNCHANGED downVars

RecvFail(r) ==
    /\ recv[r].state = "running"
    /\ recv' = [recv EXCEPT ![r].events = sendEvent(@)]
    /\ UNCHANGED <<dp, receivers, receiversMu, queue, timer, wk>>
    /\ UNCHANGED downVars

\* ------------------------------------------------------------------------
\* DynamicPrefixReconciler
\* ------------------------------------------------------------------------
Observe(getErr) ==
    IF getErr THEN "error"
    ELSE IF ~dp.exists THEN "absent"
    ELSE IF dp.deleting THEN (IF dp.finalizer THEN "deleting" ELSE "deletingNoFinalizer")
    ELSE IF ~dp.finalizer THEN "needsFinalizer"
    ELSE "live"

FirstStep(obs) ==
    CASE obs \in {"error", "absent", "deleting"} -> "cleanup"
      [] obs = "deletingNoFinalizer" -> "skip"
      [] obs = "needsFinalizer" -> "addFinalizer"
      [] OTHER -> "getReceiver"

\* A worker takes the name off the work queue and fetches the resource.
BeginReconcile(w) ==
    /\ queue
    /\ wk[w].pc = "idle"
    /\ \E getErr \in BOOLEAN :
          wk' = [wk EXCEPT ![w] = [IdleWorker EXCEPT !.pc = FirstStep(Observe(getErr)),
                                                     !.obs = Observe(getErr)]]
    /\ queue' = FALSE
    /\ UNCHANGED <<dp, receivers, recv, receiversMu, timer>>
    /\ UNCHANGED downVars

\* The work queue hands a name to at most one worker at a time; the workers
\* are interchangeable, so the hand-off goes to the first of them.
Dequeue(w) ==
    /\ \A o \in Workers : wk[o].pc = "idle"
    /\ w = FirstWorker
    /\ BeginReconcile(w)

\* Deletion in progress and the finalizer is not ours to run: return.
SkipDeleting(w) ==
    /\ wk[w].pc = "skip"
    /\ wk' = [wk EXCEPT ![w] = IdleWorker]
    /\ UNCHANGED <<dp, receivers, recv, receiversMu, queue, timer>>
    /\ UNCHANGED downVars

StopReceiverSkipped(rs, r) == rs

\* Receiver.Stop()
StopReceiver(rs, r) == [rs EXCEPT ![r].state = "stopped"]

cleanupReceiver(w) ==
    /\ wk[w].pc = "cleanup"
    /\ receiversMu = ""
    /\ IF receivers # 0
       THEN /\ recv' = StopReceiver(recv, receivers)
            /\ receivers' = 0
       ELSE UNCHANGED <<recv, receivers>>
    /\ wk' = [wk EXCEPT ![w] = IF wk[w].obs = "deleting"
                               THEN [@ EXCEPT !.pc = "removeFinalizer"]
                               ELSE IdleWorker]
    /\ timer' = (timer \/ wk[w].obs = "error")
    /\ UNCHANGED <<dp, receiversMu, queue>>
    /\ UNCHANGED downVars

RemoveFinalizer(w) ==
    /\ wk[w].pc = "removeFinalizer"
    /\ \E ok \in BOOLEAN :
          IF ok /\ ~wk[w].stale
          THEN /\ dp' = IF dp.foreign THEN [dp EXCEPT !.finalizer = FALSE] ELSE Absent
               /\ queue' = TRUE
               /\ wk' = [Invalidated(wk) EXCEPT ![w] = IdleWorker]
               /\ UNCHANGED timer
          ELSE /\ timer' = TRUE
               /\ wk' = [wk EXCEPT ![w] = IdleWorker]
               /\ UNCHANGED <<dp, queue>>
    /\ UNCHANGED <<receivers, recv, receiversMu>>
    /\ UNCHANGED downVars

AddFinalizer(w) ==
    /\ wk[w].pc = "addFinalizer"
    /\ \E ok \in BOOLEAN :
          IF ok /\ ~wk[w].stale
          THEN /\ dp' = [dp EXCEPT !.finalizer = TRUE]
               /\ queue' = TRUE
               /\ wk' = [Invalidated(wk) EXCEPT ![w] = IdleWorker]
               /\ UNCHANGED timer
          ELSE /\ timer' = TRUE
               /\ wk' = [wk EXCEPT ![w] = IdleWorker]
               /\ UNCHANGED <<dp, queue>>
    /\ UNCHANGED <<receivers, recv, receiversMu>>
    /\ UNCHANGED downVars

\* getOrCreateReceiver: lookup under the read lock.
LookupReceiver(w) ==
    /\ wk[w].pc = "getReceiver"
    /\ receiversMu = ""
    /\ wk' = [wk EXCEPT ![w] = IF receivers # 0
                               THEN [@ EXCEPT !.r = receivers, !.pc = "readPrefix"]
                               ELSE [@ EXCEPT !.pc = "lock"]]
    /\ UNCHANGED <<dp, receivers, recv, receiversMu, queue, timer>>
    /\ UNCHANGED downVars

\* getOrCreateReceiver: take the write lock after a miss.
LockRegistry(w) ==
    /\ wk[w].pc = "lock"
    /\ receiversMu = ""
    /\ receiversMu' = w
    /\ wk' = [wk EXCEPT ![w].pc = "locked"]
    /\ UNCHANGED <<dp, receivers, recv, queue, timer>>
    /\ UNCHANGED downVars

DoubleCheckSkipped(registered) == FALSE

\* The second lookup, made while holding the write lock.
DoubleCheck(registered) == registered # 0

FreeIds == {r \in 1..MaxReceivers : recv[r].state = "unborn"}

\* getOrCreateReceiver: double-check, construct, start and register, then unlock.
CreateReceiver(w) ==
    /\ wk[w].pc = "locked"
    /\ receiversMu = w
    /\ receiversMu' = ""
    /\ IF DoubleCheck(receivers)
       THEN /\ wk' = [wk EXCEPT ![w].r = receivers, ![w].pc = "readPrefix"]
            /\ UNCHANGED <<receivers, recv>>
       ELSE \E outcome \in {"ok", "createErr", "startErr"} :
               \/ /\ outcome = "createErr"
                  /\ wk' = [wk EXCEPT ![w].pc = "creationFailed"]
                  /\ UNCHANGED <<receivers, recv>>
               \/ /\ outcome = "startErr"
                  /\ FreeIds # {}
                  /\ LET id == CHOOSE r \in FreeIds : \A o \in FreeIds : r <= o
                     IN  recv' = [recv EXCEPT ![id].state = "failed"]
                  /\ wk' = [wk EXCEPT ![w].pc = "creationFailed"]
                  /\ UNCHANGED receivers
               \/ /\ outcome = "ok"
                  /\ FreeIds # {}
                  /\ LET id == CHOOSE r \in FreeIds : \A o \in FreeIds : r <= o
                     IN  /\ recv' = [recv EXCEPT ![id].state = "running"]
                         /\ receivers' = id
                         /\ wk' = [wk EXCEPT ![w].r = id, ![w].pc = "readPrefix"]
    /\ UNCHANGED <<dp, queue, timer>>
    /\ UNCHANGED downVars

\* Status write shared by the reconcile's exits; a stale snapshot conflicts.
WriteStatus(w, st) ==
    \E ok \in BOOLEAN :
       /\ IF ok /\ ~wk[w].stale
          THEN /\ dp' = [dp EXCEPT !.status = st]
               /\ queue' = (queue \/ dp' # dp)
               /\ wk' = [Invalidated(wk) EXCEPT ![w] = IdleWorker]
          ELSE /\ wk' = [wk EXCEPT ![w] = IdleWorker]
               /\ UNCHANGED <<dp, queue>>
       /\ timer' = TRUE

CreationFailed(w) ==
    /\ wk[w].pc = "creationFailed"
    /\ WriteStatus(w, [dp.status EXCEPT !.acquired = "ReceiverCreationFailed"])
    /\ UNCHANGED <<receivers, recv, receiversMu>>
    /\ UNCHANGED downVars

ReadCurrentPrefix(w) ==
    /\ wk[w].pc = "readPrefix"
    /\ wk' = [wk EXCEPT ![w].cur = recv[wk[w].r].cur, ![w].pc = "writeStatus"]
    /\ UNCHANGED <<dp, receivers, recv, receiversMu, queue, timer>>
    /\ UNCHANGED downVars

UpdateStatus(w) ==
    /\ wk[w].pc = "writeStatus"
    /\ WriteStatus(w, IF wk[w].cur = NoPrefix
                      THEN StatusWaiting(dp.status)
                      ELSE StatusAcquired(dp.status, dp.spec, wk[w].cur))
    /\ UNCHANGED <<receivers, recv, receiversMu>>
    /\ UNCHANGED downVars

\* A RequeueAfter (or rate-limited retry) comes due.
TimerFires ==
    /\ timer
    /\ timer' = FALSE
    /\ queue' = TRUE
    /\ UNCHANGED <<dp, receivers, recv, receiversMu, wk>>
    /\ UNCHANGED downVars

ReconcileStep(w) ==
    \/ SkipDeleting(w)
    \/ cleanupReceiver(w)
    \/ RemoveFinalizer(w)
    \/ AddFinalizer(w)
    \/ LookupReceiver(w)
    \/ LockRegistry(w)
    \/ CreateReceiver(w)
    \/ CreationFailed(w)
    \/ ReadCurrentPrefix(w)
    \/ UpdateStatus(w)

Lifecycle ==
    \/ UserCreate
    \/ UserDelete
    \/ ForeignFinalizerRemoved
    \/ TimerFires

Environment ==
    \/ Lifecycle
    \/ UserSetMaxPrefixHistory
    \/ \E r \in 1..MaxReceivers : RecvUpdate(r) \/ RecvExpire(r) \/ RecvFail(r)

\* ------------------------------------------------------------------------
\* Address-range arithmetic
\* ------------------------------------------------------------------------
\* An offset suffix such as "::f000:0:0:0" is the integer it parses to; the
\* prefix bits come from the base, the remaining bits from the suffix.
parseOffsetSuffix(basePrefix, suffix) ==
    MaskAddr(basePrefix.addr, basePrefix.bits) + (suffix % Pow2(AddrBits - basePrefix.bits))

RangeErr(e) == [err |-> e, start |-> 0 - 1, end |-> 0 - 1]

CalculateAddressRange(basePrefix, cfg) ==
    LET startAddr == parseOffsetSuffix(basePrefix, cfg.start)
        endAddr   == parseOffsetSuffix(basePrefix, cfg.end)
    IN  IF startAddr > endAddr THEN RangeErr("StartAfterEnd")
        ELSE IF ~Contains(basePrefix, startAddr) THEN RangeErr("StartOutsidePrefix")
        ELSE IF ~Contains(basePrefix, endAddr) THEN RangeErr("EndOutsidePrefix")
        ELSE [err |-> "", start |-> startAddr, end |-> endAddr]

\* Number of leading bits start and end have in common, counted from bit n.
RECURSIVE CommonBits(_, _, _)
CommonBits(start, end, n) ==
    IF n < AddrBits /\ MaskAddr(start, n + 1) = MaskAddr(end, n + 1)
    THEN CommonBits(start, end, n + 1)
    ELSE n

RangeToCIDR(start, end) ==
    [addr |-> MaskAddr(start, CommonBits(start, end, 0)), bits |-> CommonBits(start, end, 0)]

\* ------------------------------------------------------------------------
\* The DynamicPrefix as the downstream controllers find it in the store
\* ------------------------------------------------------------------------
DPName == "home"

TheSubnets == <<[name |-> "lb", offset |-> 1, prefixLength |-> BaseLen + 1]>>

TheAddressRanges == <<[name |-> "services", start |-> 2, end |-> 3]>>

TransitionChoices ==
    {[mode |-> "unset", maxPrefixHistory |-> 0]}
        \cup {[mode |-> m, maxPrefixHistory |-> h] : m \in {"simple", "ha"}, h \in 1..MaxHistoryOption}

PoolTransitions == {t \in TransitionChoices : t.mode # "ha"}

SpecWith(t) == [maxPrefixHistory |-> t.maxPrefixHistory, mode |-> t.mode,
                subnets |-> TheSubnets, addressRanges |-> TheAddressRanges]

\* First index of the entry called name, 0 when there is none.
FindByName(entries, name) ==
    IF \E i \in 1..Len(entries) : entries[i].name = name
    THEN CHOOSE i \in 1..Len(entries) :
            /\ entries[i].name = name
            /\ \A j \in 1..(i - 1) : entries[j].name # name
    ELSE 0

\* The first n entries of the history, the only ones the projections visit.
FirstEntries(history, n) == SubSeq(history, 1, IF Len(history) < n THEN Len(history) ELSE n)

IsHAModeIgnored(spec) == TRUE

\* spec.transition set and its mode equal to ha.
IsHAMode(spec) == spec.mode = "ha"

\* ------------------------------------------------------------------------
\* Downstream pool resources
\* ------------------------------------------------------------------------
LBPoolKind == "CiliumLoadBalancerIPPool"

CIDRGroupKind == "CiliumCIDRGroup"

PoolNames == {"pool"}

PoolKeys == {[kind |-> k, name |-> n] : k \in {LBPoolKind, CIDRGroupKind}, n \in PoolNames}

NoKey == [kind |-> "", name |-> ""]

NoTime == 0 - 1

NoPool == [exists |-> FALSE, dpName |-> "", addressRange |-> "", subnet |-> "",
           blocks |-> <<>>, lastSync |-> NoTime]

\* Annotations a user may put on a pool resource: none, name only, name with
\* an address range, name with a subnet, name with a range the spec lacks.
PoolAnnotationChoices ==
    {[dpName |-> "", addressRange |-> "", subnet |-> ""],
     [dpName |-> DPName, addressRange |-> "", subnet |-> ""],
     [dpName |-> DPName, addressRange |-> "services", subnet |-> ""],
     [dpName |-> DPName, addressRange |-> "", subnet |-> "lb"],
     [dpName |-> DPName, addressRange |-> "ghost", subnet |-> ""]}

NoConfigs(e) == [err |-> e, configs |-> <<>>]

CIDRConfig(cidr) == [useAddressRange |-> FALSE, start |-> 0 - 1, end |-> 0 - 1, cidr |-> cidr]

calculateAddressRangeConfig(prefix, rangeSpec) ==
    LET ar == CalculateAddressRange(prefix, rangeSpec)
    IN  IF prefix = NoPrefix THEN NoConfigs("InvalidPrefix")
        ELSE IF ar.err # "" THEN NoConfigs(ar.err)
        ELSE [err |-> "", configs |-> <<[useAddressRange |-> TRUE, start |-> ar.start, end |-> ar.end,
                                          cidr |-> RangeToCIDR(ar.start, ar.end)]>>]

calculateSubnetConfig(prefix, subnetSpec) ==
    LET sn == CalculateSubnet(prefix, subnetSpec)
    IN  IF prefix = NoPrefix THEN NoConfigs("InvalidPrefix")
        ELSE IF sn.err # "" THEN NoConfigs(sn.err)
        ELSE [err |-> "", configs |-> <<CIDRConfig(sn.cidr)>>]

\* Configurations of the historical prefixes, given the result computed for
\* each of them in order; a failed computation is skipped.
RECURSIVE HistoryConfigs(_)
HistoryConfigs(results) ==
    IF results = <<>> THEN <<>>
    ELSE Head(results).configs \o HistoryConfigs(Tail(results))

buildAddressRangeConfigs(d, addressRangeName, maxHistory) ==
    LET i == FindByName(d.spec.addressRanges, addressRangeName)
        j == FindByName(d.status.addressRanges, addressRangeName)
        current == IF j # 0
                   THEN [err |-> "", configs |-> <<[useAddressRange |-> TRUE,
                                                     start |-> d.status.addressRanges[j].start,
                                                     end |-> d.status.addressRanges[j].end,
                                                     cidr |-> d.status.addressRanges[j].cidr]>>]
                   ELSE IF i = 0 THEN NoConfigs("NotFound")
                   ELSE calculateAddressRangeConfig(d.status.currentPrefix, d.spec.addressRanges[i])
    IN  IF current.err # "" THEN current
        ELSE IF i = 0 THEN current
        ELSE [err |-> "",
              configs |-> current.configs \o
                          HistoryConfigs([h \in 1..Len(FirstEntries(d.status.history, maxHistory)) |->
                                            calculateAddressRangeConfig(d.status.history[h].prefix,
                                                                        d.spec.addressRanges[i])])]

buildSubnetConfigs(d, subnetName, maxHistory) ==
    LET i == FindByName(d.spec.subnets, subnetName)
        j == FindByName(d.status.subnets, subnetName)
        current == IF j # 0 THEN [err |-> "", configs |-> <<CIDRConfig(d.status.subnets[j].cidr)>>]
                   ELSE IF i = 0 THEN NoConfigs("NotFound")
                   ELSE calculateSubnetConfig(d.status.currentPrefix, d.spec.subnets[i])
    IN  IF current.err # "" THEN current
        ELSE IF i = 0 THEN current
        ELSE [err |-> "",
              configs |-> current.configs \o
                          HistoryConfigs([h \in 1..Len(FirstEntries(d.status.history, maxHistory)) |->
                                            calculateSubnetConfig(d.status.history[h].prefix,
                                                                  d.spec.subnets[i])])]

buildRawPrefixConfigs(d, maxHistory) ==
    LET hist == FirstEntries(d.status.history, maxHistory)
    IN  <<CIDRConfig(d.status.currentPrefix)>> \o [i \in 1..Len(hist) |-> CIDRConfig(hist[i].prefix)]

buildPoolConfigurations(d, pool) ==
    IF d.status.currentPrefix = NoPrefix THEN NoConfigs("NoCurrentPrefix")
    ELSE IF pool.addressRange # "" THEN buildAddressRangeConfigs(d, pool.addressRange, MaxHistoryOf(d.spec))
    ELSE IF pool.subnet # "" THEN buildSubnetConfigs(d, pool.subnet, MaxHistoryOf(d.spec))
    ELSE [err |-> "", configs |-> buildRawPrefixConfigs(d, MaxHistoryOf(d.spec))]

\* spec.blocks of an LB IP pool: {start, stop} for a range, {cidr} otherwise.
LoadBalancerBlocks(configs) ==
    [i \in 1..Len(configs) |->
        IF configs[i].useAddressRange /\ configs[i].start # 0 - 1 /\ configs[i].end # 0 - 1
        THEN [start |-> configs[i].start, stop |-> configs[i].end, cidr |-> NoPrefix]
        ELSE [start |-> 0 - 1, stop |-> 0 - 1, cidr |-> configs[i].cidr]]

\* spec.externalCIDRs of a CIDR group: CIDR strings only.
ExternalCIDRs(configs) == [i \in 1..Len(configs) |-> configs[i].cidr]

ProjectedField(kind, configs) ==
    IF kind = LBPoolKind THEN LoadBalancerBlocks(configs) ELSE ExternalCIDRs(configs)

\* findReferencingPools: one request per annotated pool naming the DynamicPrefix.
findReferencingPools(ps) ==
    {k.name : k \in {x \in PoolKeys : ps[x].exists /\ ps[x].dpName = DPName}}

PoolInit ==
    /\ pools = [k \in PoolKeys |-> NoPool]
    /\ poolQueue = {}
    /\ poolTimer = {}
    /\ poolSynced = {}

EnvInit ==
    /\ now = 0
    /\ faults = 0

\* A user applies an annotated (or plain) pool resource.
ApplyPool(k) ==
    /\ ~pools[k].exists
    /\ \E a \in PoolAnnotationChoices :
          /\ pools' = [pools EXCEPT ![k] = [NoPool EXCEPT !.exists = TRUE, !.dpName = a.dpName,
                                                          !.addressRange = a.addressRange,
                                                          !.subnet = a.subnet]]
          /\ poolQueue' = IF a.dpName # "" THEN poolQueue \cup {k.name} ELSE poolQueue
    /\ poolSynced' = poolSynced \ {k}
    /\ UNCHANGED <<poolTimer, ctrlVars, svcVars, envVars>>
    /\ UNCHANGED unitVars

\* The resource a request for name resolves to: the LB IP pool is tried
\* first, the CIDR group only when that read fails.
FetchPool(name, lbGetFails) ==
    IF pools[[kind |-> LBPoolKind, name |-> name]].exists /\ ~lbGetFails
    THEN [kind |-> LBPoolKind, name |-> name]
    ELSE IF pools[[kind |-> CIDRGroupKind, name |-> name]].exists
    THEN [kind |-> CIDRGroupKind, name |-> name]
    ELSE NoKey

FaultChoices(kinds) == IF faults < MaxFaults THEN {"none"} \cup kinds ELSE {"none"}

PoolReconcile(name) ==
    /\ name \in poolQueue
    /\ \E fault \in FaultChoices({"getPool", "getDP", "update"}) :
          LET k       == FetchPool(name, fault = "getPool")
              configs == buildPoolConfigurations(dp, pools[k])
          IN  /\ faults' = IF fault = "none" THEN faults ELSE faults + 1
              /\ IF k = NoKey \/ pools[k].dpName = ""
                 THEN /\ poolQueue' = poolQueue \ {name}
                      /\ UNCHANGED <<pools, poolTimer, poolSynced>>
                 ELSE IF \/ fault = "getDP" \/ ~dp.exists \/ pools[k].dpName # DPName
                         \/ configs.err # "" \/ Len(configs.configs) = 0
                         \/ fault = "update"
                 THEN /\ poolQueue' = poolQueue \ {name}
                      /\ poolTimer' = poolTimer \cup {name}
                      /\ poolSynced' = poolSynced \ {k}
                      /\ UNCHANGED pools
                 ELSE /\ pools' = [pools EXCEPT ![k].blocks = ProjectedField(k.kind, configs.configs),
                                                ![k].lastSync = now]
                      /\ poolQueue' = IF pools' # pools THEN poolQueue ELSE poolQueue \ {name}
                      /\ poolSynced' = poolSynced \cup {k}
                      /\ UNCHANGED poolTimer
    /\ UNCHANGED <<ctrlVars, svcVars, now>>
    /\ UNCHANGED unitVars

\* The informers periodically deliver every watched object again; the
\* annotation predicate lets the annotated pool resources through.
PoolResync ==
    /\ poolQueue' = poolQueue \cup {k.name : k \in {x \in PoolKeys : pools[x].exists /\ pools[x].dpName # ""}}
    /\ UNCHANGED <<pools, poolTimer, poolSynced, ctrlVars, svcVars, envVars>>
    /\ UNCHANGED unitVars

PoolTimerFires(name) ==
    /\ name \in poolTimer
    /\ poolTimer' = poolTimer \ {name}
    /\ poolQueue' = poolQueue \cup {name}
    /\ UNCHANGED <<pools, poolSynced, ctrlVars, svcVars, envVars>>
    /\ UNCHANGED unitVars

\* ------------------------------------------------------------------------
\* LoadBalancer services
\* ------------------------------------------------------------------------
ServiceNames == {"web"}

NoIP == 0 - 1

\* Host part the load balancer gives the service inside a prefix.
ServiceHost == 3

\* Addresses the load balancer can hand out: the service's host part inside
\* the current prefix or a historical one, the blocks the pools hold.
IngressChoices(d) ==
    {p.addr + ServiceHost :
        p \in {q \in Prefixes : \/ q = d.status.currentPrefix
                                 \/ \E i \in 1..Len(d.status.history) : d.status.history[i].prefix = q}}

NoService == [exists |-> FALSE, serviceAddressRange |-> "", addressRange |-> "",
              serviceSubnet |-> "", subnet |-> "", ingress |-> NoIP,
              ips |-> <<>>, target |-> NoIP, lastSync |-> NoTime]

ServiceAnnotationChoices ==
    {[serviceAddressRange |-> "", addressRange |-> "", serviceSubnet |-> "", subnet |-> ""],
     [serviceAddressRange |-> "services", addressRange |-> "", serviceSubnet |-> "", subnet |-> ""],
     [serviceAddressRange |-> "", addressRange |-> "ghost", serviceSubnet |-> "", subnet |-> ""],
     [serviceAddressRange |-> "", addressRange |-> "", serviceSubnet |-> "lb", subnet |-> ""]}

getCurrentServiceIP(svc) == svc.ingress

\* 128-bit subtraction with borrow; wraps around.
calculateIPOffset(base, target) == (target - base + AddrSpace) % AddrSpace

\* 128-bit addition with carry; wraps around.
applyIPOffset(base, offset) == (base + offset) % AddrSpace

IPsErr(e) == [err |-> e, current |-> NoIP, ips |-> <<>>]

\* Historical IPs: the start of each historical range (or subnet) plus the
\* offset; entries whose range (or subnet) could not be computed (NoIP) are skipped.
RECURSIVE HistoryIPs(_, _)
HistoryIPs(starts, offset) ==
    IF starts = <<>> THEN <<>>
    ELSE (IF Head(starts) = NoIP THEN <<>> ELSE <<applyIPOffset(Head(starts), offset)>>)
         \o HistoryIPs(Tail(starts), offset)

calculateAddressRangeIPs(d, currentAddr, addressRangeName, maxHistory) ==
    LET i == FindByName(d.spec.addressRanges, addressRangeName)
        StartOf(prefix) == LET ar == CalculateAddressRange(prefix, d.spec.addressRanges[i])
                           IN  IF ar.err # "" THEN NoIP ELSE ar.start
    IN  IF i = 0 THEN IPsErr("")
        ELSE IF d.status.currentPrefix = NoPrefix THEN IPsErr("InvalidPrefix")
        ELSE IF StartOf(d.status.currentPrefix) = NoIP THEN IPsErr("RangeFailed")
        ELSE [err |-> "", current |-> currentAddr,
              ips |-> <<currentAddr>> \o
                      HistoryIPs([h \in 1..Len(FirstEntries(d.status.history, maxHistory)) |->
                                    StartOf(d.status.history[h].prefix)],
                                 calculateIPOffset(StartOf(d.status.currentPrefix), currentAddr))]

calculateSubnetIPs(d, currentAddr, subnetName, maxHistory) ==
    LET i == FindByName(d.spec.subnets, subnetName)
        StartOf(prefix) == LET sn == CalculateSubnet(prefix, d.spec.subnets[i])
                           IN  IF sn.err # "" THEN NoIP ELSE sn.cidr.addr
    IN  IF i = 0 THEN IPsErr("")
        ELSE IF d.status.currentPrefix = NoPrefix THEN IPsErr("InvalidPrefix")
        ELSE IF StartOf(d.status.currentPrefix) = NoIP THEN IPsErr("SubnetFailed")
        ELSE [err |-> "", current |-> currentAddr,
              ips |-> <<currentAddr>> \o
                      HistoryIPs([h \in 1..Len(FirstEntries(d.status.history, maxHistory)) |->
                                    StartOf(d.status.history[h].prefix)],
                                 calculateIPOffset(StartOf(d.status.currentPrefix), currentAddr))]

\* The range (or subnet) name the service's annotations select, the
\* service-level annotation first, then the pool-level one.
AddressRangeNameOf(svc) ==
    IF svc.serviceAddressRange # "" THEN svc.serviceAddressRange ELSE svc.addressRange

SubnetNameOf(svc) ==
    IF svc.serviceSubnet # "" THEN svc.serviceSubnet ELSE svc.subnet

calculateServiceIPs(d, svc, currentServiceIP) ==
    LET fallback == [err |-> "", current |-> currentServiceIP, ips |-> <<currentServiceIP>>]
        byRange  == calculateAddressRangeIPs(d, currentServiceIP, AddressRangeNameOf(svc), MaxHistoryOf(d.spec))
        bySubnet == calculateSubnetIPs(d, currentServiceIP, SubnetNameOf(svc), MaxHistoryOf(d.spec))
    IN  IF AddressRangeNameOf(svc) # "" THEN (IF byRange.err # "" THEN fallback ELSE byRange)
        ELSE IF SubnetNameOf(svc) # "" THEN (IF bySubnet.err # "" THEN fallback ELSE bySubnet)
        ELSE fallback

\* findReferencingServices: only an HA-mode DynamicPrefix fans out.
findReferencingServices(d, svcs) ==
    IF d.exists /\ IsHAMode(d.spec) THEN {s \in ServiceNames : svcs[s].exists} ELSE {}

SvcInit ==
    /\ services = [s \in ServiceNames |-> NoService]
    /\ svcQueue = {}
    /\ svcTimer = {}
    /\ svcResult = [s \in ServiceNames |-> ""]

\* A user applies a LoadBalancer service annotated with the DynamicPrefix name.
ApplyService(s) ==
    /\ ~services[s].exists
    /\ \E a \in ServiceAnnotationChoices :
          services' = [services EXCEPT ![s] = [NoService EXCEPT !.exists = TRUE,
                                                  !.serviceAddressRange = a.serviceAddressRange,
                                                  !.addressRange = a.addressRange,
                                                  !.serviceSubnet = a.serviceSubnet,
                                                  !.subnet = a.subnet]]
    /\ svcQueue' = svcQueue \cup {s}
    /\ UNCHANGED <<svcTimer, svcResult, ctrlVars, poolVars, envVars>>
    /\ UNCHANGED unitVars

\* The load balancer publishes (or moves) the service's ingress IP.
AssignIngress(s) ==
    /\ services[s].exists
    /\ \E ip \in IngressChoices(dp) :
          /\ ip # services[s].ingress
          /\ services' = [services EXCEPT ![s].ingress = ip]
    /\ svcQueue' = svcQueue \cup {s}
    /\ UNCHANGED <<svcTimer, svcResult, ctrlVars, poolVars, envVars>>
    /\ UNCHANGED unitVars

\* Outcome of one reconcile of svc against the DynamicPrefix d.
ServiceOutcome(svc, d, fault) ==
    LET calc == calculateServiceIPs(d, svc, getCurrentServiceIP(svc))
    IN  IF ~svc.exists THEN "notFound"
        ELSE IF fault = "getDP" \/ ~d.exists THEN "dpGetFailed"
        ELSE IF ~IsHAMode(d.spec) THEN "notHA"
        ELSE IF getCurrentServiceIP(svc) = NoIP THEN "noIP"
        ELSE IF svc.ips = calc.ips /\ svc.target = calc.current THEN "unchanged"
        ELSE IF fault = "update" THEN "updateFailed"
        ELSE "updated"

SvcReconcile(s) ==
    /\ s \in svcQueue
    /\ \E fault \in FaultChoices({"getDP", "update"}) :
          LET outcome == ServiceOutcome(services[s], dp, fault)
              calc    == calculateServiceIPs(dp, services[s], getCurrentServiceIP(services[s]))
          IN  /\ faults' = IF fault = "none" THEN faults ELSE faults + 1
              /\ svcResult' = [svcResult EXCEPT ![s] = outcome]
              /\ services' = IF outcome = "updated"
                             THEN [services EXCEPT ![s].ips = calc.ips, ![s].target = calc.current,
                                                   ![s].lastSync = now]
                             ELSE services
              /\ svcQueue' = IF outcome = "updated" THEN svcQueue ELSE svcQueue \ {s}
              /\ svcTimer' = IF outcome \in {"dpGetFailed", "noIP", "updateFailed"}
                             THEN svcTimer \cup {s} ELSE svcTimer
    /\ UNCHANGED <<ctrlVars, poolVars, now>>
    /\ UNCHANGED unitVars

SvcTimerFires(s) ==
    /\ s \in svcTimer
    /\ svcTimer' = svcTimer \ {s}
    /\ svcQueue' = svcQueue \cup {s}
    /\ UNCHANGED <<services, svcResult, ctrlVars, poolVars, envVars>>
    /\ UNCHANGED unitVars

\* ------------------------------------------------------------------------
\* Writes to the DynamicPrefix as the downstream controllers' watches see them
\* ------------------------------------------------------------------------
\* Every change of the DynamicPrefix is mapped, for the object before and
\* after the change, to the pools and services that reference it.
FanOut(old, new) ==
    /\ poolQueue' = poolQueue \cup findReferencingPools(pools)
    /\ svcQueue' = svcQueue \cup findReferencingServices(old, services)
                             \cup findReferencingServices(new, services)
    /\ poolSynced' = {}
    /\ UNCHANGED <<pools, poolTimer, services, svcTimer, svcResult, ctrlRest, envVars>>
    /\ UNCHANGED unitVars

ApplyDynamicPrefix(transitions) ==
    /\ ~dp.exists
    /\ \E t \in transitions :
          dp' = [Absent EXCEPT !.exists = TRUE, !.spec = SpecWith(t)]
    /\ FanOut(dp, dp')

UserSetTransition(transitions) ==
    /\ dp.exists
    /\ \E t \in transitions :
          /\ SpecWith(t) # dp.spec
          /\ dp' = [dp EXCEPT !.spec = SpecWith(t)]
    /\ FanOut(dp, dp')

\* The prefix reconciler has read prefix p from its receiver and written the status.
PrefixReconciledFrom(delegated) ==
    /\ dp.exists
    /\ \E p \in delegated :
          /\ dp' = [dp EXCEPT !.finalizer = TRUE, !.status = StatusAcquired(dp.status, dp.spec, p)]
          /\ dp' # dp
    /\ FanOut(dp, dp')

PrefixReconciled == PrefixReconciledFrom(Prefixes)

\* A delegation longer than the subnets the spec asks for, as an upstream
\* hands out after it has reduced the size of its delegations.
LongerPrefix ==
    [addr |-> NumPrefixes * Pow2(AddrBits - BaseLen) + Pow2(AddrBits - BaseLen - 1), bits |-> BaseLen + 2]

DelegatedPrefixes == Prefixes \cup {LongerPrefix}

\* The prefix reconciler where the upstream may change the delegation's length.
PrefixResized == PrefixReconciledFrom(DelegatedPrefixes)

\* A second passes on the wall clock.
Tick ==
    /\ now < MaxClock
    /\ now' = now + 1
    /\ UNCHANGED <<faults, ctrlVars, poolVars, svcVars>>
    /\ UNCHANGED unitVars

\* ========================================================================
\* Prefix receivers
\* ========================================================================
\* One receiver object is driven through the Receiver interface (Start, Stop,
\* Events, CurrentPrefix) by a caller that may call in any order.  Every
\* successful Start launches a new worker goroutine; workers are numbered by
\* the Start that launched them.  A step of a worker that does not wait for
\* the network or for a timer takes no time: the clock of the receiver
\* (Elapse, one read-deadline interval per step) only advances when no such
\* step is pending.
ReceiverKinds == {"ra", "dhcpv6pd", "mock"}

Gens == 1..MaxStarts

Event(t, p) == [type |-> t, prefix |-> p]

NoEvent == Event("", NoPrefix)

\* select { case events <- ev: default: }: the event is dropped when the
\* buffer is full.
trySend(ch, ev) == IF Len(ch) < EventBuffer THEN Append(ch, ev) ELSE ch

RxInit(kinds) ==
    /\ rxKind \in kinds
    /\ rxStarted = FALSE
    /\ rxStopCh = "open"
    /\ rxRet = "none"
    /\ rxGen = 0
    /\ rxPc = [g \in Gens |-> "none"]
    /\ rxCtx = [g \in Gens |-> "none"]
    /\ rxSleep = [g \in Gens |-> 0]
    /\ rxStopAge = [g \in Gens |-> NoTime]
    /\ rxCur = NoPrefix
    /\ rxEvents = <<>>
    /\ rxBlocked = NoEvent
    /\ rxRead = [acquired |-> FALSE, last |-> ""]

\* What a call leaves alone besides the receiver's own lifecycle fields.
rxData == <<rxKind, rxSleep, rxCur, rxEvents, rxBlocked, rxRead>>

rxOutside == <<ctrlVars, poolVars, svcVars, envVars, compVars, fnVars, pdVars, lk>>

\* context.WithCancel, started = true and `go loop()` of a successful Start.
launch(pc0) ==
    /\ rxGen < MaxStarts
    /\ rxStarted' = TRUE
    /\ rxGen' = rxGen + 1
    /\ rxPc' = [rxPc EXCEPT ![rxGen + 1] = pc0]
    /\ rxCtx' = [rxCtx EXCEPT ![rxGen + 1] = "live"]
    /\ rxRet' = "ok"

\* The stop signal reaches the worker of generation g: the stop channel is
\* closed or its context is done.
Stopped(g) == rxStopCh = "closed" \/ rxCtx[g] # "live"

\* started = false, cancel(), close(stopCh) and (RA) conn.Close() of a Stop
\* that found the receiver started.  close of a closed channel panics; the
\* panic is not recovered, so the process and with it the receiver, its
\* workers and its channel are gone.
shutdown ==
    IF rxStopCh = "closed"
    THEN /\ rxRet' = "panic"
         /\ rxStarted' = FALSE
         /\ rxStopCh' = "open"
         /\ rxGen' = 0
         /\ rxPc' = [g \in Gens |-> "none"]
         /\ rxCtx' = [g \in Gens |-> "none"]
         /\ rxSleep' = [g \in Gens |-> 0]
         /\ rxStopAge' = [g \in Gens |-> NoTime]
         /\ rxCur' = NoPrefix
         /\ rxEvents' = <<>>
         /\ rxBlocked' = NoEvent
         /\ rxRead' = [acquired |-> FALSE, last |-> ""]
    ELSE /\ rxRet' = "ok"
         /\ rxStarted' = FALSE
         /\ rxStopCh' = "closed"
         /\ rxCtx' = [g \in Gens |->
                         IF g = rxGen /\ rxCtx[g] # "none" THEN "closed" ELSE rxCtx[g]]
         /\ rxStopAge' = [g \in Gens |->
                             IF rxPc[g] # "none" /\ rxStopAge[g] = NoTime
                             THEN 0 ELSE rxStopAge[g]]
         /\ UNCHANGED <<rxGen, rxPc, rxSleep, rxCur, rxEvents, rxBlocked, rxRead>>

RAStart ==
    /\ rxKind = "ra" /\ rxRet # "panic"
    /\ IF rxStarted
       THEN rxRet' = "ok" /\ UNCHANGED <<rxStarted, rxGen, rxPc, rxCtx>>
       ELSE \/ rxRet' = "startFailure" /\ UNCHANGED <<rxStarted, rxGen, rxPc, rxCtx>>
            \/ launch("check")
    /\ UNCHANGED <<rxStopCh, rxStopAge, rxData, rxOutside>>

DHCPv6PDStart ==
    /\ rxKind = "dhcpv6pd" /\ rxRet # "panic"
    /\ IF rxStarted
       THEN rxRet' = "ok" /\ UNCHANGED <<rxStarted, rxGen, rxPc, rxCtx>>
       ELSE launch("acquire")
    /\ UNCHANGED <<rxStopCh, rxStopAge, rxData, rxOutside>>

MockStart ==
    /\ rxKind = "mock" /\ rxRet # "panic"
    /\ rxStarted' = TRUE
    /\ rxRet' = "ok"
    /\ UNCHANGED <<rxStopCh, rxGen, rxPc, rxCtx, rxStopAge, rxData, rxOutside>>

\* RAReceiver.Stop and DHCPv6PDReceiver.Stop.
WorkerStop ==
    /\ rxKind \in {"ra", "dhcpv6pd"} /\ rxRet # "panic"
    /\ IF rxStarted
       THEN shutdown
       ELSE /\ rxRet' = "ok"
            /\ UNCHANGED <<rxStarted, rxStopCh, rxCtx, rxStopAge, rxGen, rxPc,
                           rxSleep, rxCur, rxEvents, rxBlocked, rxRead>>
    /\ UNCHANGED <<rxKind, rxOutside>>

\* MockReceiver.Stop closes the stop channel whether or not it was started.
MockStop ==
    /\ rxKind = "mock" /\ rxRet # "panic"
    /\ shutdown
    /\ UNCHANGED <<rxKind, rxOutside>>

\* The cancellation scope handed to Start is cancelled by its owner.
CancelScope ==
    /\ rxRet # "panic"
    /\ rxGen > 0 /\ rxCtx[rxGen] = "live"
    /\ rxCtx' = [rxCtx EXCEPT ![rxGen] = "cancelled"]
    /\ rxStopAge' = [rxStopAge EXCEPT ![rxGen] = IF @ = NoTime THEN 0 ELSE @]
    /\ UNCHANGED <<rxStarted, rxStopCh, rxRet, rxGen, rxPc, rxData, rxOutside>>

Failed == Event("failed", NoPrefix)

\* processIAPDReply / updatePrefix / SimulatePrefix: the new prefix replaces
\* the current one and the event is classified against the previous one.
UpdateEvent(p) == Event(EventTypeFor(rxCur, p), p)

\* DHCPv6PDReceiver.runLoop, one step of the worker of generation g.
runLoop(g) ==
    /\ rxKind = "dhcpv6pd" /\ rxRet # "panic"
    /\ \/ /\ rxPc[g] = "acquire"
          /\ \/ /\ rxCtx[g] = "live"
                /\ \E p \in Prefixes :
                      /\ rxCur' = p
                      /\ rxEvents' = trySend(rxEvents, UpdateEvent(p))
             \/ /\ rxEvents' = trySend(rxEvents, Failed)
                /\ UNCHANGED rxCur
          /\ rxPc' = [rxPc EXCEPT ![g] = "check"]
          /\ UNCHANGED rxSleep
       \/ /\ rxPc[g] = "check"
          /\ IF Stopped(g)
             THEN rxPc' = [rxPc EXCEPT ![g] = "done"] /\ UNCHANGED rxSleep
             ELSE IF rxCur = NoPrefix
             THEN /\ rxPc' = [rxPc EXCEPT ![g] = "retryWait"]
                  /\ rxSleep' = [rxSleep EXCEPT ![g] = RetryInterval \div ReadDeadline]
             ELSE /\ \E next \in {"renew", "sleepT1"} : rxPc' = [rxPc EXCEPT ![g] = next]
                  /\ UNCHANGED rxSleep
          /\ UNCHANGED <<rxCur, rxEvents>>
       \/ /\ rxPc[g] = "retryWait"
          /\ rxSleep[g] = 0
          /\ rxPc' = [rxPc EXCEPT ![g] = "acquire"]
          /\ UNCHANGED <<rxSleep, rxCur, rxEvents>>
       \/ /\ rxPc[g] = "renew"
          /\ \/ /\ rxCtx[g] = "live" /\ rxCur # NoPrefix
                /\ \E p \in Prefixes :
                      /\ rxCur' = p
                      /\ rxEvents' = trySend(rxEvents, UpdateEvent(p))
                /\ rxPc' = [rxPc EXCEPT ![g] = "check"]
             \/ /\ rxEvents' = trySend(rxEvents, Failed)
                /\ \E next \in {"check", "rebind"} : rxPc' = [rxPc EXCEPT ![g] = next]
                /\ UNCHANGED rxCur
          /\ UNCHANGED rxSleep
       \/ /\ rxPc[g] = "rebind"
          /\ \/ /\ rxCtx[g] = "live" /\ rxCur # NoPrefix
                /\ \E p \in Prefixes :
                      /\ rxCur' = p
                      /\ rxEvents' = trySend(rxEvents, UpdateEvent(p))
             \/ /\ rxCur' = NoPrefix
                /\ rxEvents' = trySend(trySend(rxEvents, Failed), Event("expired", NoPrefix))
          /\ rxPc' = [rxPc EXCEPT ![g] = "check"]
          /\ UNCHANGED rxSleep
       \/ /\ rxPc[g] = "sleepT1"
          /\ rxPc' = [rxPc EXCEPT ![g] = IF Stopped(g) THEN "done" ELSE "check"]
          /\ UNCHANGED <<rxSleep, rxCur, rxEvents>>
    /\ UNCHANGED <<rxKind, rxStarted, rxStopCh, rxRet, rxGen, rxCtx, rxStopAge, rxBlocked, rxRead>>
    /\ UNCHANGED rxOutside

\* RAReceiver.receiveLoop, one step of the worker of generation g.
receiveLoop(g) ==
    /\ rxKind = "ra" /\ rxRet # "panic"
    /\ \/ /\ rxPc[g] = "check"
          /\ IF Stopped(g)
             THEN rxPc' = [rxPc EXCEPT ![g] = "done"] /\ UNCHANGED rxSleep
             ELSE /\ rxPc' = [rxPc EXCEPT ![g] = "read"]
                  /\ rxSleep' = [rxSleep EXCEPT ![g] = 1]
          /\ UNCHANGED <<rxCur, rxEvents>>
       \/ /\ rxPc[g] = "read"
          /\ \/ /\ rxCtx[g] = "closed"
                /\ rxEvents' = trySend(rxEvents, Failed)
                /\ UNCHANGED rxCur
             \/ /\ rxCtx[g] # "closed" /\ rxSleep[g] = 0
                /\ UNCHANGED <<rxCur, rxEvents>>
             \/ /\ rxCtx[g] # "closed"
                /\ \/ \E p \in Prefixes :
                         /\ rxCur' = p
                         /\ rxEvents' = trySend(rxEvents, UpdateEvent(p))
                   \/ /\ rxEvents' = trySend(rxEvents, Failed)
                      /\ UNCHANGED rxCur
          /\ rxPc' = [rxPc EXCEPT ![g] = "check"]
          /\ UNCHANGED rxSleep
    /\ UNCHANGED <<rxKind, rxStarted, rxStopCh, rxRet, rxGen, rxCtx, rxStopAge, rxBlocked, rxRead>>
    /\ UNCHANGED rxOutside

\* events <- ev of the mock: the caller stays blocked in the send while the
\* buffer is full.
blockingSend(ev) ==
    IF Len(rxEvents) < EventBuffer
    THEN rxEvents' = Append(rxEvents, ev) /\ UNCHANGED rxBlocked
    ELSE rxBlocked' = ev /\ UNCHANGED rxEvents

MockFrame == UNCHANGED <<rxKind, rxStarted, rxStopCh, rxRet, rxGen, rxPc, rxCtx,
                         rxSleep, rxStopAge, rxRead, rxOutside>>

SimulatePrefix ==
    /\ rxKind = "mock" /\ rxRet # "panic" /\ rxBlocked = NoEvent
    /\ \E p \in Prefixes :
          /\ rxCur' = p
          /\ blockingSend(UpdateEvent(p))
    /\ MockFrame

SimulatePrefixExpiry ==
    /\ rxKind = "mock" /\ rxRet # "panic" /\ rxBlocked = NoEvent
    /\ rxCur' = NoPrefix
    /\ IF rxCur # NoPrefix
       THEN blockingSend(Event("expired", rxCur))
       ELSE UNCHANGED <<rxEvents, rxBlocked>>
    /\ MockFrame

SimulateError ==
    /\ rxKind = "mock" /\ rxRet # "panic" /\ rxBlocked = NoEvent
    /\ blockingSend(Failed)
    /\ UNCHANGED rxCur
    /\ MockFrame

\* The consumer receives the oldest event from Events(); a sender blocked on
\* the full buffer completes its send with that receive.
Consume ==
    /\ rxRet # "panic"
    /\ rxEvents # <<>>
    /\ rxRead' = [acquired |-> rxRead.acquired \/ Head(rxEvents).type = "acquired",
                  last |-> Head(rxEvents).type]
    /\ rxEvents' = IF rxBlocked = NoEvent THEN Tail(rxEvents)
                   ELSE Append(Tail(rxEvents), rxBlocked)
    /\ rxBlocked' = NoEvent
    /\ UNCHANGED <<rxKind, rxStarted, rxStopCh, rxRet, rxGen, rxPc, rxCtx,
                   rxSleep, rxStopAge, rxCur, rxOutside>>

\* The worker of generation g has a step that waits for nothing.
Urgent(g) ==
    \/ rxPc[g] = "check"
    \/ rxPc[g] \in {"acquire", "renew", "rebind"} /\ rxCtx[g] # "live"
    \/ rxPc[g] = "retryWait" /\ rxSleep[g] = 0
    \/ rxPc[g] = "sleepT1" /\ Stopped(g)
    \/ rxPc[g] = "read" /\ (rxCtx[g] = "closed" \/ rxSleep[g] = 0)

\* One read-deadline interval passes.
Elapse ==
    /\ rxRet # "panic"
    /\ \A g \in Gens : ~Urgent(g)
    /\ \E g \in Gens : rxSleep[g] > 0 \/ (rxStopAge[g] # NoTime /\ rxStopAge[g] < StopDeadline)
    /\ rxSleep' = [g \in Gens |-> IF rxSleep[g] > 0 THEN rxSleep[g] - 1 ELSE 0]
    /\ rxStopAge' = [g \in Gens |->
                        IF rxStopAge[g] # NoTime /\ rxStopAge[g] < StopDeadline
                        THEN rxStopAge[g] + 1 ELSE rxStopAge[g]]
    /\ UNCHANGED <<rxKind, rxStarted, rxStopCh, rxRet, rxGen, rxPc, rxCtx,
                   rxCur, rxEvents, rxBlocked, rxRead, rxOutside>>

\* ------------------------------------------------------------------------
\* Composite receiver
\* ------------------------------------------------------------------------
\* The composite owns two receivers behind the Receiver interface.  A child
\* is represented by what the composite can observe of it: whether it is
\* started, its stop channel, its current prefix and its event channel.  A
\* child's worker emits while the child is started and its stop channel is
\* open.  The merge loop never waits in a send, so it takes the children's
\* events as they come: a child emits while at most ChildBuffer - 1 of its
\* events wait in its channel, and no child event is lost before the merge.
Children == {"primary", "fallback"}

NewChild == [started |-> FALSE, stopCh |-> "open", cur |-> NoPrefix, events |-> <<>>]

\* NewCompositeReceiver: maxFailures, the number of consecutive failures of
\* the primary at which the composite turns to the fallback.
MaxFailures == 3

CompInit ==
    /\ cStarted = FALSE
    /\ cStopCh = "open"
    /\ cPanic = FALSE
    /\ cMerge = [g \in 1..MaxCompositeStarts |-> "none"]
    /\ cActive = "primary"
    /\ cFailures = 0
    /\ cEvents = <<>>
    /\ child = [c \in Children |-> NewChild]

compOutside == <<ctrlVars, poolVars, svcVars, envVars, rxVars, fnVars, pdVars, lk>>

\* Stop of a child: a no-op unless started; close of a closed stop channel
\* panics.
ChildStopped(ch) ==
    IF ch.started THEN [ch EXCEPT !.started = FALSE, !.stopCh = "closed"] ELSE ch

ChildStopPanics(ch) == ch.started /\ ch.stopCh = "closed"

\* A panic in Start or Stop is not recovered: the process and with it the
\* composite, its children and their channels are gone.
CompositeCrash ==
    /\ cPanic' = TRUE
    /\ cStarted' = FALSE
    /\ cStopCh' = "open"
    /\ cMerge' = [g \in 1..MaxCompositeStarts |-> "none"]
    /\ cActive' = "primary"
    /\ cFailures' = 0
    /\ cEvents' = <<>>
    /\ child' = [c \in Children |-> NewChild]

CompositeStart ==
    /\ ~cPanic
    /\ IF cStarted
       THEN UNCHANGED compVars
       ELSE \/ /\ \E g \in 1..MaxCompositeStarts :
                     /\ cMerge[g] = "none"
                     /\ \A h \in 1..(g - 1) : cMerge[h] # "none"
                     /\ cMerge' = [cMerge EXCEPT ![g] = "running"]
               /\ child' = [c \in Children |-> [child[c] EXCEPT !.started = TRUE]]
               /\ cStarted' = TRUE
               /\ UNCHANGED <<cPanic, cStopCh, cActive, cFailures, cEvents>>
            \/ \* fallback.Start fails: the primary is stopped again
               /\ ~child["fallback"].started
               /\ IF child["primary"].stopCh = "closed"
                  THEN CompositeCrash
                  ELSE /\ child' = [child EXCEPT !["primary"] =
                                      ChildStopped([child["primary"] EXCEPT !.started = TRUE])]
                       /\ UNCHANGED <<cPanic, cStarted, cMerge, cStopCh, cActive,
                                      cFailures, cEvents>>
    /\ UNCHANGED compOutside

CompositeStop ==
    /\ ~cPanic
    /\ IF ~cStarted
       THEN UNCHANGED compVars
       ELSE IF cStopCh = "closed" \/ \E c \in Children : ChildStopPanics(child[c])
       THEN CompositeCrash
       ELSE /\ cStarted' = FALSE
            /\ cStopCh' = "closed"
            /\ child' = [c \in Children |-> ChildStopped(child[c])]
            /\ UNCHANGED <<cPanic, cMerge, cActive, cFailures, cEvents>>
    /\ UNCHANGED compOutside

\* CompositeReceiver.CurrentPrefix
IsUsingFallback == cActive = "fallback"

CurrentPrefix ==
    IF child["primary"].cur # NoPrefix THEN child["primary"].cur ELSE child["fallback"].cur

\* A child's worker updates its prefix, reports a failure or lets the prefix
\* expire, placing the event on the child's channel.
ChildEmits(c) ==
    /\ ~cPanic
    /\ child[c].started /\ child[c].stopCh = "open"
    /\ Len(child[c].events) < ChildBuffer
    /\ \/ \E p \in Prefixes :
             child' = [child EXCEPT ![c].cur = p,
                          ![c].events = Append(@, Event(EventTypeFor(child[c].cur, p), p))]
       \/ /\ c = "primary" => cFailures < MaxConsecutive
          /\ child' = [child EXCEPT ![c].events = Append(@, Failed)]
       \/ /\ child[c].cur # NoPrefix
          /\ child' = [child EXCEPT ![c].cur = NoPrefix,
                          ![c].events = Append(@, Event("expired", NoPrefix))]
    /\ UNCHANGED <<cStarted, cStopCh, cPanic, cMerge, cActive, cFailures, cEvents, compOutside>>

AnnounceFallbackSkipped(ch) == ch

\* The fallback's prefix is announced when the composite turns to it.
AnnounceFallback(ch) ==
    IF child["fallback"].cur # NoPrefix
    THEN trySend(ch, Event("acquired", child["fallback"].cur))
    ELSE ch

handlePrimaryEventKeepsCount(event) ==
    IF event.type = "failed"
    THEN /\ cFailures' = cFailures + 1
         /\ IF cFailures + 1 >= MaxFailures
            THEN /\ cActive' = "fallback"
                 /\ cEvents' = trySend(AnnounceFallback(cEvents), event)
            ELSE /\ cEvents' = trySend(cEvents, event)
                 /\ UNCHANGED cActive
    ELSE /\ cEvents' = trySend(cEvents, event)
         /\ UNCHANGED <<cActive, cFailures>>

handlePrimaryEvent(event) ==
    IF event.type = "failed"
    THEN /\ cFailures' = cFailures + 1
         /\ IF cFailures + 1 >= MaxFailures
            THEN /\ cActive' = "fallback"
                 /\ cEvents' = trySend(AnnounceFallback(cEvents), event)
            ELSE /\ cEvents' = trySend(cEvents, event)
                 /\ UNCHANGED cActive
    ELSE IF event.type \in {"acquired", "renewed", "changed"}
    THEN /\ cFailures' = 0
         /\ cActive' = "primary"
         /\ cEvents' = trySend(cEvents, event)
    ELSE /\ UNCHANGED cFailures
         /\ IF child["fallback"].cur # NoPrefix
            THEN cActive' = "fallback" /\ cEvents' = AnnounceFallback(cEvents)
            ELSE cEvents' = trySend(cEvents, event) /\ UNCHANGED cActive

handleFallbackEventAlways(event) ==
    /\ cEvents' = trySend(cEvents, event)
    /\ UNCHANGED <<cActive, cFailures>>

handleFallbackEvent(event) ==
    /\ cEvents' = IF cActive # "fallback" THEN cEvents ELSE trySend(cEvents, event)
    /\ UNCHANGED <<cActive, cFailures>>

\* One turn of the select in CompositeReceiver.mergeEvents: any ready case
\* may be taken, also a child event while the stop channel is closed.
mergeEvents(g) ==
    /\ ~cPanic
    /\ cMerge[g] = "running"
    /\ \/ /\ cStopCh = "closed"
          /\ cMerge' = [cMerge EXCEPT ![g] = "done"]
          /\ UNCHANGED <<cActive, cFailures, cEvents, child>>
       \/ /\ child["primary"].events # <<>>
          /\ handlePrimaryEvent(Head(child["primary"].events))
          /\ child' = [child EXCEPT !["primary"].events = Tail(@)]
          /\ UNCHANGED cMerge
       \/ /\ child["fallback"].events # <<>>
          /\ handleFallbackEvent(Head(child["fallback"].events))
          /\ child' = [child EXCEPT !["fallback"].events = Tail(@)]
          /\ UNCHANGED cMerge
    /\ UNCHANGED <<cStarted, cStopCh, cPanic, compOutside>>

\* The consumer receives the oldest event of the merged stream.
CompositeConsume ==
    /\ ~cPanic
    /\ cEvents # <<>>
    /\ cEvents' = Tail(cEvents)
    /\ UNCHANGED <<cStarted, cStopCh, cPanic, cMerge, cActive, cFailures, child, compOutside>>

\* ========================================================================
\* The lease of the DHCPv6-PD client
\* ========================================================================
\* The worker of a started DHCPv6-PD receiver with the lease it records.
\* Times are in seconds.  pdAge is the time since the lease's ReceivedAt,
\* pdElapsed the value of `elapsed` the loop computed at the top of the
\* current iteration.  pdSent holds the types of the events the last step
\* handed to sendEvent / sendError, pdExpired whether the worker has sent
\* expired since it was started, pdLast the kind of answer the last
\* exchange ended with.  An exchange takes between no time and MaxExchange
\* seconds (the code allows it 30 s).
NoLease == [prefix |-> NoPrefix, T1 |-> 0, T2 |-> 0, ValidLifetime |-> 0]

\* Durations a server may put in a REPLY.
Lifetimes == {LifetimeStep * i : i \in 0..1}

Timers == {LifetimeStep * i : i \in 0..MaxTimerSteps}

IAPrefixes == [prefix : Prefixes, ValidLifetime : Lifetimes]

IAPrefixLists == UNION {[1..n -> IAPrefixes] : n \in 0..MaxIAPrefixes}

\* What an exchange ends with: an error before any REPLY is processed (a
\* timeout, a cancelled context, a missing interface or server identifier),
\* or a REPLY with its IA_PD options.  matching says whether an IA_PD with
\* the expected IAID is among them; status is the IA_PD's status code option.
ExchangeError ==
    [kind |-> "error", matching |-> FALSE, status |-> "absent", T1 |-> 0, T2 |-> 0, prefixes |-> <<>>]

Replies ==
    {[kind |-> "reply", matching |-> TRUE, status |-> st, T1 |-> t1, T2 |-> t2, prefixes |-> ps] :
        st \in {"absent", "Success", "NoPrefixAvail"}, t1 \in Timers, t2 \in Timers,
        ps \in IAPrefixLists}
    \cup {[ExchangeError EXCEPT !.kind = "reply"]}

Outcomes == {ExchangeError} \cup Replies

\* Index of the first IA prefix option with a valid lifetime above zero.
RECURSIVE FirstValid(_, _)
FirstValid(prefixes, i) ==
    IF i > Len(prefixes) THEN 0
    ELSE IF prefixes[i].ValidLifetime > 0 THEN i
    ELSE FirstValid(prefixes, i + 1)

LeaseErr(e) == [err |-> e, lease |-> NoLease]

\* DHCPv6PDReceiver.processIAPDReply up to the lease it builds.
processIAPDReply(reply) ==
    IF ~reply.matching THEN LeaseErr("otherIAID")
    ELSE IF reply.status \notin {"absent", "Success"} THEN LeaseErr("status")
    ELSE IF reply.prefixes = <<>> THEN LeaseErr("noPrefixes")
    ELSE IF FirstValid(reply.prefixes, 1) = 0 THEN LeaseErr("zeroLifetimes")
    ELSE LET bestPrefix == reply.prefixes[FirstValid(reply.prefixes, 1)]
             t1 == IF reply.T1 = 0 THEN bestPrefix.ValidLifetime \div 2 ELSE reply.T1
             t2 == IF reply.T2 = 0 THEN (bestPrefix.ValidLifetime * 4) \div 5 ELSE reply.T2
         IN  [err |-> "",
              lease |-> [prefix |-> bestPrefix.prefix, T1 |-> t1, T2 |-> t2,
                         ValidLifetime |-> bestPrefix.ValidLifetime]]

\* Result of acquirePrefix / renewPrefix / rebindPrefix for an outcome of
\* the exchange.
Exchange(outcome) ==
    IF outcome.kind = "error" THEN LeaseErr("error") ELSE processIAPDReply(outcome)

PdInit ==
    /\ pdLease = NoLease
    /\ pdCur = NoPrefix
    /\ pdAge = 0
    /\ pdElapsed = 0
    /\ pdPc = "acquire"
    /\ pdLast = ""
    /\ pdSent = <<>>
    /\ pdExpired = FALSE

pdOutside == <<ctrlVars, poolVars, svcVars, envVars, rxVars, compVars, fnVars, lk>>

Later(age, d) == IF age + d > MaxAge THEN MaxAge ELSE age + d

\* The lease and the current prefix are replaced, ReceivedAt is now, and
\* the event is classified against the previous current prefix.
Record(lease) ==
    /\ pdLease' = lease
    /\ pdCur' = lease.prefix
    /\ pdAge' = 0
    /\ pdSent' = <<EventTypeFor(pdCur, lease.prefix)>>

\* acquirePrefix: the initial acquisition and every later attempt made
\* without a lease.
acquirePrefix ==
    /\ pdPc = "acquire"
    /\ \E outcome \in Outcomes :
          LET res == Exchange(outcome)
          IN  /\ pdLast' = IF res.err = "" THEN "valid" ELSE res.err
              /\ IF res.err = ""
                 THEN Record(res.lease)
                 ELSE /\ pdSent' = <<"failed">>
                      /\ UNCHANGED <<pdLease, pdCur, pdAge>>
    /\ pdPc' = "check"
    /\ UNCHANGED <<pdElapsed, pdExpired, pdOutside>>

\* Top of the loop: without a lease the worker pauses and acquires again,
\* with one it computes elapsed and renews once T1 has passed.
checkLease ==
    /\ pdPc = "check"
    /\ IF pdLease = NoLease
       THEN /\ pdPc' = "acquire"
            /\ pdAge' = 0
            /\ pdElapsed' = 0
       ELSE /\ pdElapsed' = pdAge
            /\ pdPc' = IF pdAge >= pdLease.T1 THEN "renew" ELSE "sleep"
            /\ UNCHANGED pdAge
    /\ pdLast' = ""
    /\ pdSent' = <<>>
    /\ UNCHANGED <<pdLease, pdCur, pdExpired, pdOutside>>

renewPrefix ==
    /\ pdPc = "renew"
    /\ \E outcome \in Outcomes, d \in {0, MaxExchange} :
          LET res == Exchange(outcome)
          IN  /\ pdLast' = IF res.err = "" THEN "valid" ELSE res.err
              /\ IF res.err = ""
                 THEN /\ Record(res.lease)
                      /\ pdPc' = "check"
                 ELSE /\ pdSent' = <<"failed">>
                      /\ pdAge' = Later(pdAge, d)
                      /\ pdPc' = IF pdElapsed >= pdLease.T2 THEN "rebind" ELSE "check"
                      /\ UNCHANGED <<pdLease, pdCur>>
    /\ UNCHANGED <<pdElapsed, pdExpired, pdOutside>>

\* rebindPrefix and what runLoop does when it fails.
rebindPrefix ==
    /\ pdPc = "rebind"
    /\ \E outcome \in Outcomes, d \in {0, MaxExchange} :
          LET res == Exchange(outcome)
          IN  /\ pdLast' = IF res.err = "" THEN "valid" ELSE res.err
              /\ IF res.err = ""
                 THEN Record(res.lease)
                 ELSE /\ pdSent' = <<"failed", "expired">>
                      /\ pdLease' = NoLease
                      /\ pdCur' = NoPrefix
                      /\ pdAge' = Later(pdAge, d)
              /\ pdExpired' = (pdExpired \/ res.err # "")
    /\ pdPc' = "check"
    /\ UNCHANGED <<pdElapsed, pdOutside>>

\* The wait for T1, at most a minute at a time.
sleepUntilT1 ==
    /\ pdPc = "sleep"
    /\ LET sleepDuration == IF pdLease.T1 - pdElapsed > Minute THEN Minute
                            ELSE pdLease.T1 - pdElapsed
       IN  pdAge' = Later(pdAge, sleepDuration)
    /\ pdPc' = "check"
    /\ pdLast' = ""
    /\ pdSent' = <<>>
    /\ UNCHANGED <<pdLease, pdCur, pdElapsed, pdExpired, pdOutside>>

\* ========================================================================
\* Calls of the library functions
\* ========================================================================
\* A caller holds the arguments of one call of CalculateSubnet and one
\* acquisition spec for the receiver factory; each function is applied to
\* its arguments once.
NotCalled == [err |-> "notCalled"]

\* Base prefixes of any length and subnet configurations with lengths from
\* 0 to one more than the address width.
SubnetArgsChoices ==
    [base : {[addr |-> MaskAddr(a, b), bits |-> b] : a \in 0..(AddrSpace - 1), b \in 1..BaseLen},
     cfg  : [name : {"lb"}, offset : 0..MaxOffset, prefixLength : 0..(AddrBits + 1)]]

\* AcquisitionSpec: the DHCPv6PD and RouterAdvertisement blocks, each absent
\* (nil) or present with its interface name; the RA block has Enabled.
AcquisitionChoices ==
    [dhcpv6pd            : [present : BOOLEAN, interface : {"", "eth0"}],
     routerAdvertisement : [present : BOOLEAN, interface : {"", "eth1"}, enabled : BOOLEAN]]

NoReceiver(e) == [err |-> e, kind |-> "", primary |-> "", fallback |-> ""]

createDHCPv6PDReceiver(spec) ==
    IF spec.interface = ""
    THEN NoReceiver("DHCPv6-PD interface is required")
    ELSE [err |-> "", kind |-> "dhcpv6pd", primary |-> "", fallback |-> ""]

createRAReceiver(spec) ==
    IF spec.interface = ""
    THEN NoReceiver("router advertisement interface is required")
    ELSE [err |-> "", kind |-> "ra", primary |-> "", fallback |-> ""]

createCompositeReceiver(spec) ==
    LET primary  == createDHCPv6PDReceiver(spec.dhcpv6pd)
        fallback == createRAReceiver(spec.routerAdvertisement)
    IN  IF primary.err # "" THEN NoReceiver("failed to create primary DHCPv6-PD receiver")
        ELSE IF fallback.err # "" THEN NoReceiver("failed to create fallback RA receiver")
        ELSE [err |-> "", kind |-> "composite", primary |-> primary.kind, fallback |-> fallback.kind]

FactoryCreateReceiverIgnoresEnabled(spec) ==
    IF spec.dhcpv6pd.present /\ spec.routerAdvertisement.present THEN createCompositeReceiver(spec)
    ELSE IF spec.dhcpv6pd.present THEN createDHCPv6PDReceiver(spec.dhcpv6pd)
    ELSE IF spec.routerAdvertisement.present THEN createRAReceiver(spec.routerAdvertisement)
    ELSE NoReceiver("no acquisition method configured")

\* DefaultReceiverFactory.CreateReceiver
FactoryCreateReceiver(spec) ==
    LET hasDHCPv6 == spec.dhcpv6pd.present
        hasRA     == spec.routerAdvertisement.present /\ spec.routerAdvertisement.enabled
    IN  IF hasDHCPv6 /\ hasRA THEN createCompositeReceiver(spec)
        ELSE IF hasDHCPv6 THEN createDHCPv6PDReceiver(spec.dhcpv6pd)
        ELSE IF hasRA THEN createRAReceiver(spec.routerAdvertisement)
        ELSE NoReceiver("no acquisition method configured")

FnInit(argsChoices, acquisitionChoices) ==
    /\ subnetArgs \in argsChoices
    /\ subnetResult = NotCalled
    /\ acquisition \in acquisitionChoices
    /\ created = NotCalled

fnOutside == <<ctrlVars, poolVars, svcVars, envVars, rxVars, compVars, pdVars, lk>>

CallCalculateSubnet ==
    /\ subnetResult = NotCalled
    /\ subnetResult' = CalculateSubnet(subnetArgs.base, subnetArgs.cfg)
    /\ UNCHANGED <<subnetArgs, acquisition, created, advertisement, selected, fnOutside>>

CallCreateReceiver ==
    /\ created = NotCalled
    /\ created' = FactoryCreateReceiver(acquisition)
    /\ UNCHANGED <<subnetArgs, subnetResult, acquisition, advertisement, selected, fnOutside>>

\* ------------------------------------------------------------------------
\* RAReceiver.handleRouterAdvertisement
\* ------------------------------------------------------------------------
\* A Prefix Information option: the first byte of its prefix (a global
\* unicast, a unique local and a link-local one), its L and A flags and its
\* valid lifetime in seconds.
PrefixInformations ==
    [firstByte : {32, 253, 254}, onLink : BOOLEAN, autonomous : BOOLEAN, validLifetime : Lifetimes]

Advertisements == UNION {[1..n -> PrefixInformations] : n \in 0..MaxOptions}

\* (bytes[0] & 0xE0) == 0x20
isGlobalUnicast(firstByte) == firstByte - (firstByte % 32) = 32

\* (bytes[0] & 0xFE) == 0xFC
isULA(firstByte) == firstByte - (firstByte % 2) = 252

\* The loop over the options from option i on, best being the index of the
\* option held in bestPrefix (0 for nil).  The repository holds the receiver
\* in two copies: one skips an option whose A flag is clear, the other does
\* not look at the flag.
RECURSIVE BestPrefix(_, _, _, _)
BestPrefix(options, i, best, requireAutonomous) ==
    IF i > Len(options) THEN best
    ELSE LET pi == options[i]
             chosen ==
                IF ~pi.onLink \/ (requireAutonomous /\ ~pi.autonomous) THEN best
                ELSE IF pi.validLifetime = 0 THEN best
                ELSE IF isGlobalUnicast(pi.firstByte)
                THEN (IF best = 0 \/ ~isGlobalUnicast(options[best].firstByte) THEN i ELSE best)
                ELSE IF isULA(pi.firstByte) /\ best = 0 THEN i
                ELSE best
         IN  BestPrefix(options, i + 1, chosen, requireAutonomous)

\* The option handed to updatePrefix, with index 0 when the handler returns
\* without calling it.
handleRouterAdvertisement(options, requireAutonomous) ==
    [err |-> "", index |-> BestPrefix(options, 1, 0, requireAutonomous)]

RaInit(advertisements) ==
    /\ advertisement \in advertisements
    /\ selected = NotCalled

\* One Router Advertisement is handled by either copy of the receiver.
CallHandleRouterAdvertisement ==
    /\ selected = NotCalled
    /\ \E requireAutonomous \in BOOLEAN :
          selected' = handleRouterAdvertisement(advertisement, requireAutonomous)
    /\ UNCHANGED <<subnetArgs, subnetResult, acquisition, created, advertisement, fnOutside>>

\* ------------------------------------------------------------------------
\* Locks of the registry, the composite receiver and its children
\* ------------------------------------------------------------------------
\* Two reconciles call into the registry and into the receiver it returns.
\* Every composite receiver the registry creates has its mergeEvents
\* goroutine and the worker goroutines of its two children.  A thread is at
\* an operation: before a Lock / RLock call (entered = FALSE) or inside the
\* section the call opens (entered = TRUE).
Instances == 1..MaxInstances

ChildKinds == {"primary", "fallback"}

CallerThreads == {[role |-> "caller", inst |-> 0, name |-> n] : n \in {"a", "b"}}

MergeThreads == {[role |-> "merge", inst |-> i, name |-> ""] : i \in Instances}

WorkerThreads == {[role |-> k, inst |-> i, name |-> ""] : k \in ChildKinds, i \in Instances}

Threads == CallerThreads \cup MergeThreads \cup WorkerThreads

NoThread == [role |-> "", inst |-> 0, name |-> ""]

receiversMuLock == [kind |-> "receiversMu", inst |-> 0]

LockIds ==
    {receiversMuLock} \cup {[kind |-> k, inst |-> i] : k \in {"composite"} \cup ChildKinds, i \in Instances}

At(op) == [op |-> op, entered |-> FALSE]

LkInit ==
    lk = [pc       |-> [t \in Threads |-> IF t \in CallerThreads THEN At("idle") ELSE At("off")],
          inst     |-> [t \in CallerThreads |-> 0],
          call     |-> [t \in CallerThreads |-> 0],
          writer   |-> [l \in LockIds |-> NoThread],
          readers  |-> [l \in LockIds |-> {}],
          registry |-> 0,
          created  |-> 0,
          started  |-> [i \in Instances |-> FALSE],
          stopCh   |-> [i \in Instances |-> "open"],
          child    |-> [i \in Instances |-> [k \in ChildKinds |-> "new"]],
          chan     |-> [i \in Instances |-> [k \in ChildKinds |-> 0]]]

lkOutside == <<ctrlVars, poolVars, svcVars, envVars, rxVars, compVars, fnVars, pdVars>>

\* The operations that begin with RLock and those that begin with Lock.
ReadLockOps == {"lookup", "read", "readPrimary", "readFallback", "fallbackPrefix"}

WriteLockOps ==
    {"create", "cleanup", "start", "stop", "primaryEvent", "fallbackEvent",
     "startPrimary", "undoPrimary", "stopPrimary", "startFallback", "stopFallback", "update"}

InstOf(s, t) == IF t \in CallerThreads THEN s.inst[t] ELSE t.inst

\* handlePrimaryEvent asks the fallback for its prefix: c.fallback.CurrentPrefix().
compositeCurrentPrefixLock(i) == [kind |-> "composite", inst |-> i]

fallbackCurrentPrefixLock(i) == [kind |-> "fallback", inst |-> i]

\* The mutex the thread's operation locks first.
Wanted(s, t) ==
    LET op == s.pc[t].op
        i  == InstOf(s, t)
    IN  IF op \in {"lookup", "create", "cleanup"} THEN receiversMuLock
        ELSE IF op \in {"start", "read", "stop", "primaryEvent", "fallbackEvent"}
        THEN [kind |-> "composite", inst |-> i]
        ELSE IF op \in {"startPrimary", "undoPrimary", "readPrimary", "stopPrimary"}
        THEN [kind |-> "primary", inst |-> i]
        ELSE IF op \in {"startFallback", "readFallback", "stopFallback"}
        THEN [kind |-> "fallback", inst |-> i]
        ELSE IF op = "fallbackPrefix" THEN fallbackCurrentPrefixLock(i)
        ELSE [kind |-> t.role, inst |-> i]

Waiting(s, t) == ~s.pc[t].entered /\ s.pc[t].op \in ReadLockOps \cup WriteLockOps

\* sync.RWMutex: a writer that has called Lock keeps later readers out.
PendingWriters(s, l) ==
    {u \in Threads : Waiting(s, u) /\ s.pc[u].op \in WriteLockOps /\ Wanted(s, u) = l}

CanAcquire(s, t) ==
    LET l == Wanted(s, t)
    IN  IF s.pc[t].op \in WriteLockOps
        THEN s.writer[l] = NoThread /\ s.readers[l] = {}
        ELSE s.writer[l] = NoThread /\ PendingWriters(s, l) \ {t} = {}

\* Lock / RLock returns.
Acquire(t) ==
    /\ Waiting(lk, t)
    /\ CanAcquire(lk, t)
    /\ lk' = IF lk.pc[t].op \in WriteLockOps
             THEN [lk EXCEPT !.pc[t].entered = TRUE, !.writer[Wanted(lk, t)] = t]
             ELSE [lk EXCEPT !.pc[t].entered = TRUE, !.readers[Wanted(lk, t)] = @ \cup {t}]
    /\ UNCHANGED lkOutside

Goto(s, t, op) == [s EXCEPT !.pc[t] = At(op)]

\* Unlock / RUnlock of the mutexes in locks, among them the deferred ones.
Unlock(s, locks, t) ==
    [s EXCEPT !.writer  = [l \in LockIds |-> IF l \in locks /\ s.writer[l] = t THEN NoThread
                                             ELSE s.writer[l]],
              !.readers = [l \in LockIds |-> IF l \in locks THEN s.readers[l] \ {t}
                                             ELSE s.readers[l]]]

LocksOf(i, kinds) == {[kind |-> k, inst |-> i] : k \in kinds}

\* The reconcile goes on to receiver.CurrentPrefix().
ReadReceiver(s, t, i) == [Goto(s, t, "read") EXCEPT !.inst[t] = i, !.call[t] = 1]

\* CurrentPrefix has returned: the reconcile calls Source next or, with no
\* prefix, returns; Source is the last call.
AfterRead(s, t) ==
    {[Goto(s, t, "idle") EXCEPT !.call[t] = 0]}
       \cup (IF s.call[t] = 1 THEN {[Goto(s, t, "read") EXCEPT !.call[t] = 2]} ELSE {})

\* getOrCreateReceiver, from the lookup under the read lock to the start of
\* the new receiver under the write lock.
getOrCreateReceiver(s, t) ==
    LET op == s.pc[t].op
        i  == s.inst[t]
    IN  IF op = "lookup"
        THEN {IF s.registry # 0
              THEN ReadReceiver(Unlock(s, {receiversMuLock}, t), t, s.registry)
              ELSE Goto(Unlock(s, {receiversMuLock}, t), t, "create")}
        ELSE IF s.registry # 0
        THEN {ReadReceiver(Unlock(s, {receiversMuLock}, t), t, s.registry)}
        ELSE {Goto(Unlock(s, {receiversMuLock}, t), t, "idle")}
                \cup (IF s.created < MaxInstances
                      THEN {[Goto(s, t, "start") EXCEPT !.inst[t] = s.created + 1,
                                                         !.created = s.created + 1]}
                      ELSE {})

Spawn(s, u, op) == [s EXCEPT !.pc[u] = At(op)]

WorkerOf(i, k) == [role |-> k, inst |-> i, name |-> ""]

MergeOf(i) == [role |-> "merge", inst |-> i, name |-> ""]

\* CompositeReceiver.Start with the Start of the two children.
StartLocked(s, t) ==
    LET op == s.pc[t].op
        i  == s.inst[t]
    IN  IF op = "start" THEN {Goto(s, t, "startPrimary")}
        ELSE IF op = "startPrimary"
        THEN {Goto(Unlock(Spawn([s EXCEPT !.child[i]["primary"] = "started"],
                                WorkerOf(i, "primary"), "loop"),
                          LocksOf(i, {"primary"}), t),
                   t, "startFallback")}
        ELSE IF op = "startFallback"
        THEN {[ReadReceiver(Unlock(Spawn(Spawn([s EXCEPT !.child[i]["fallback"] = "started",
                                                          !.started[i] = TRUE],
                                               WorkerOf(i, "fallback"), "loop"),
                                         MergeOf(i), "select"),
                                   LocksOf(i, {"fallback", "composite"}) \cup {receiversMuLock}, t),
                            t, i) EXCEPT !.registry = i],
              Goto(Unlock(s, LocksOf(i, {"fallback"}), t), t, "undoPrimary")}
        ELSE {Goto(Unlock([s EXCEPT !.child[i]["primary"] = "stopped"],
                          LocksOf(i, {"primary", "composite"}) \cup {receiversMuLock}, t),
                   t, "idle")}

\* CompositeReceiver.CurrentPrefix and Source: the primary is asked first,
\* the fallback when the primary has no prefix.
CurrentPrefixLocked(s, t) ==
    LET op == s.pc[t].op
        i  == s.inst[t]
    IN  IF op = "read" THEN {Goto(s, t, "readPrimary")}
        ELSE IF op = "readPrimary"
        THEN {Goto(Unlock(s, LocksOf(i, {"primary"}), t), t, "readFallback")}
                \cup AfterRead(Unlock(s, LocksOf(i, {"primary", "composite"}), t), t)
        ELSE AfterRead(Unlock(s, LocksOf(i, {"fallback", "composite"}), t), t)

\* cleanupReceiver with CompositeReceiver.Stop and the Stop of the children.
cleanupReceiverLocked(s, t) ==
    LET op == s.pc[t].op
        i  == s.inst[t]
    IN  IF op = "cleanup"
        THEN {IF s.registry = 0
              THEN Goto(Unlock(s, {receiversMuLock}, t), t, "idle")
              ELSE [Goto(s, t, "stop") EXCEPT !.inst[t] = s.registry]}
        ELSE IF op = "stop"
        THEN {IF s.started[i]
              THEN Goto([s EXCEPT !.started[i] = FALSE, !.stopCh[i] = "closed"], t, "stopPrimary")
              ELSE [Goto(Unlock(s, LocksOf(i, {"composite"}) \cup {receiversMuLock}, t), t, "idle")
                       EXCEPT !.registry = 0]}
        ELSE IF op = "stopPrimary"
        THEN {Goto(Unlock([s EXCEPT !.child[i]["primary"] = "stopped"], LocksOf(i, {"primary"}), t),
                   t, "stopFallback")}
        ELSE {[Goto(Unlock([s EXCEPT !.child[i]["fallback"] = "stopped"],
                           LocksOf(i, {"fallback", "composite"}) \cup {receiversMuLock}, t),
                    t, "idle") EXCEPT !.registry = 0]}

\* handlePrimaryEvent and handleFallbackEvent; sendEvent never blocks.
HandleEvent(s, t) ==
    LET op == s.pc[t].op
        i  == t.inst
    IN  IF op = "primaryEvent"
        THEN {Goto(Unlock(s, LocksOf(i, {"composite"}), t), t, "select"),
              Goto(s, t, "fallbackPrefix")}
        ELSE IF op = "fallbackPrefix"
        THEN {Goto(Unlock(s, {fallbackCurrentPrefixLock(i)} \cup LocksOf(i, {"composite"}), t),
                   t, "select")}
        ELSE {Goto(Unlock(s, LocksOf(i, {"composite"}), t), t, "select")}

\* A child's worker records a prefix under its mutex and sends the event
\* without blocking.
ChildUpdate(s, t) ==
    {Goto(Unlock([s EXCEPT !.chan[t.inst][t.role] = IF @ < ChildBuffer THEN @ + 1 ELSE @],
                 LocksOf(t.inst, {t.role}), t),
          t, "loop")}

\* The section a thread has entered, up to its next Lock / RLock call.
Section(s, t) ==
    LET op == s.pc[t].op
    IN  IF op \in {"lookup", "create"} THEN getOrCreateReceiver(s, t)
        ELSE IF op \in {"start", "startPrimary", "startFallback", "undoPrimary"}
        THEN StartLocked(s, t)
        ELSE IF op \in {"read", "readPrimary", "readFallback"} THEN CurrentPrefixLocked(s, t)
        ELSE IF op \in {"cleanup", "stop", "stopPrimary", "stopFallback"}
        THEN cleanupReceiverLocked(s, t)
        ELSE IF op \in {"primaryEvent", "fallbackPrefix", "fallbackEvent"} THEN HandleEvent(s, t)
        ELSE ChildUpdate(s, t)

RunSection(t) ==
    /\ lk.pc[t].entered
    /\ lk' \in Section(lk, t)
    /\ UNCHANGED lkOutside

\* A reconcile begins: it asks for the receiver or cleans it up.
CallRegistry(t) ==
    /\ t \in CallerThreads
    /\ lk.pc[t] = At("idle")
    /\ \E op \in {"lookup", "cleanup"} : lk' = Goto(lk, t, op)
    /\ UNCHANGED lkOutside

\* The select of mergeEvents.
MergeSelect(t) ==
    /\ t \in MergeThreads
    /\ lk.pc[t] = At("select")
    /\ \/ lk.stopCh[t.inst] = "closed" /\ lk' = Goto(lk, t, "done")
       \/ \E k \in ChildKinds :
             /\ lk.chan[t.inst][k] > 0
             /\ lk' = [Goto(lk, t, IF k = "primary" THEN "primaryEvent" ELSE "fallbackEvent")
                          EXCEPT !.chan[t.inst][k] = @ - 1]
    /\ UNCHANGED lkOutside

\* The top of a child's worker loop: it leaves when stopped and has
\* something to record otherwise.
WorkerLoop(t) ==
    /\ t \in WorkerThreads
    /\ lk.pc[t] = At("loop")
    /\ lk' = Goto(lk, t, IF lk.child[t.inst][t.role] = "stopped" THEN "done" ELSE "update")
    /\ UNCHANGED lkOutside

NextLock ==
    \E t \in Threads :
       \/ CallRegistry(t)
       \/ Acquire(t)
       \/ RunSection(t)
       \/ MergeSelect(t)
       \/ WorkerLoop(t)

\* ========================================================================
\* Specifications
\* ========================================================================
\* The arguments the library functions are not called with in the
\* specifications of the controllers and the receivers.
IdleFnArgs ==
    FnInit({[base |-> [addr |-> 0, bits |-> 1], cfg |-> [name |-> "lb", offset |-> 0, prefixLength |-> 0]]},
           {[dhcpv6pd |-> [present |-> FALSE, interface |-> ""],
             routerAdvertisement |-> [present |-> FALSE, interface |-> "", enabled |-> FALSE]]})

IdleFnInit == IdleFnArgs /\ RaInit({<<>>})

Init ==
    /\ CtrlInit /\ PoolInit /\ SvcInit /\ EnvInit /\ RxInit({"mock"}) /\ CompInit
    /\ IdleFnInit /\ PdInit /\ LkInit

Next ==
    \/ Environment
    \/ \E w \in Workers : Dequeue(w) \/ ReconcileStep(w)

Spec == Init /\ [][Next]_vars

\* Concurrent reconciles of the same name (no single-flight at the queue),
\* under the part of the environment that drives the receiver registry.
NextConc ==
    \/ Lifecycle
    \/ \E w \in Workers : BeginReconcile(w) \/ ReconcileStep(w)

SpecConc == Init /\ [][NextConc]_vars

\* The pool projection controller with the pools and the DynamicPrefix it reads.
NextPool ==
    \/ ApplyDynamicPrefix(PoolTransitions)
    \/ UserSetTransition(PoolTransitions)
    \/ PrefixReconciled
    \/ Tick
    \/ PoolResync
    \/ \E k \in PoolKeys : ApplyPool(k)
    \/ \E n \in PoolNames : PoolReconcile(n) \/ PoolTimerFires(n)

SpecPool == Init /\ [][NextPool]_vars

\* The pool projection controller below an upstream whose delegations vary
\* in length.
NextResize ==
    \/ ApplyDynamicPrefix({t \in PoolTransitions : t.mode = "unset"})
    \/ PrefixResized
    \/ \E k \in PoolKeys : ApplyPool(k)
    \/ \E n \in PoolNames : PoolReconcile(n) \/ PoolTimerFires(n)

SpecResize == Init /\ [][NextResize]_vars

\* The work queue hands every queued request to a worker and timers come due.
FairSpecPool ==
    /\ SpecPool
    /\ WF_vars(PoolResync)
    /\ \A n \in PoolNames : WF_vars(PoolReconcile(n)) /\ WF_vars(PoolTimerFires(n))

\* The HA service controller with the services and the DynamicPrefix it reads.
NextSvc ==
    \/ ApplyDynamicPrefix(TransitionChoices)
    \/ UserSetTransition(TransitionChoices)
    \/ PrefixReconciled
    \/ \E s \in ServiceNames : ApplyService(s) \/ AssignIngress(s) \/ SvcReconcile(s) \/ SvcTimerFires(s)

SpecSvc == Init /\ [][NextSvc]_vars

\* One receiver of any kind with its caller, its workers and its consumer.
InitRecv ==
    /\ CtrlInit /\ PoolInit /\ SvcInit /\ EnvInit /\ RxInit(ReceiverKinds) /\ CompInit
    /\ IdleFnInit /\ PdInit /\ LkInit

NextRecv ==
    \/ RAStart \/ DHCPv6PDStart \/ MockStart
    \/ WorkerStop \/ MockStop
    \/ CancelScope
    \/ \E g \in Gens : runLoop(g) \/ receiveLoop(g)
    \/ SimulatePrefix \/ SimulatePrefixExpiry \/ SimulateError
    \/ Consume
    \/ Elapse

SpecRecv == InitRecv /\ [][NextRecv]_vars

\* The composite receiver with its two children and its consumer.
NextComp ==
    \/ CompositeStart \/ CompositeStop
    \/ \E c \in Children : ChildEmits(c)
    \/ \E g \in 1..MaxCompositeStarts : mergeEvents(g)
    \/ CompositeConsume

SpecComp == Init /\ [][NextComp]_vars

\* The library functions applied to arguments drawn from bounded sets.
InitFn ==
    /\ CtrlInit /\ PoolInit /\ SvcInit /\ EnvInit /\ RxInit({"mock"}) /\ CompInit
    /\ FnInit(SubnetArgsChoices, AcquisitionChoices)
    /\ RaInit({<<>>})
    /\ PdInit /\ LkInit

NextFn == CallCalculateSubnet \/ CallCreateReceiver

SpecFn == InitFn /\ [][NextFn]_vars

\* The RA receiver's handler applied to the advertisements of a router.
InitRA ==
    /\ CtrlInit /\ PoolInit /\ SvcInit /\ EnvInit /\ RxInit({"mock"}) /\ CompInit
    /\ IdleFnArgs
    /\ RaInit(Advertisements)
    /\ PdInit /\ LkInit

NextRA == CallHandleRouterAdvertisement

SpecRA == InitRA /\ [][NextRA]_vars

\* The registry, one composite receiver at a time and the threads on their locks.
SpecLock == Init /\ [][NextLock]_vars

\* The DHCPv6-PD client's worker with the answers of the server.
NextLease == acquirePrefix \/ checkLease \/ renewPrefix \/ rebindPrefix \/ sleepUntilT1

SpecLease == Init /\ [][NextLease]_vars

\* The worker goroutine keeps running: every exchange ends (it has a 30 s
\* timeout) and every sleep ends.
FairSpecLease == SpecLease /\ WF_vars(NextLease)

\* ========================================================================
\* Properties
\* ========================================================================
Running == {r \in 1..MaxReceivers : recv[r].state = "running"}

\* C1: at every moment the number of status.history entries is at most the
\* effective spec.transition.maxPrefixHistory (default 2 when unset), also
\* after the user has edited maxPrefixHistory.
C1_HistoryWithinMax ==
    dp.exists => Len(dp.status.history) <= MaxHistoryOf(dp.spec)

\* C2: under any interleaving of concurrent reconciles at most one receiver
\* is constructed, started and not yet stopped for the DynamicPrefix name.
C2_AtMostOneReceiver == Cardinality(Running) <= 1

\* Two reconciles missed the registry; one has registered its receiver while
\* the other holds the write lock and is about to make its second lookup.
C2_Witness ==
    \E a \in Workers :
        /\ wk[a].pc = "locked"
        /\ receivers # 0
        /\ recv[receivers].state = "running"

\* C3: when a reconcile that observed the resource absent or being deleted
\* returns, no receiver is registered under the name and none is running.
C3_ReceiverNeverOutlivesResource ==
    [][\A w \in Workers :
          (/\ wk[w].pc # "idle"
           /\ wk'[w].pc = "idle"
           /\ wk[w].obs \in {"absent", "deleting", "deletingNoFinalizer"})
          => (receivers' = 0 /\ \A r \in 1..MaxReceivers : recv'[r].state # "running")]_vars

\* A reconcile that observed the deletion has stopped and forgotten the
\* registered receiver and is about to remove the finalizer.
C3_Witness ==
    \E w \in Workers :
        /\ wk[w].pc = "removeFinalizer"
        /\ receivers = 0
        /\ \E r \in 1..MaxReceivers : recv[r].state = "stopped"

\* The projected field of pool resource k is what the pool projection derives
\* from the DynamicPrefix now in the store (nothing is asked where it derives none).
Projected(k) ==
    LET c == buildPoolConfigurations(dp, pools[k])
    IN  c.err = "" => pools[k].blocks = ProjectedField(k.kind, c.configs)

PoolsConverged ==
    \A k \in PoolKeys :
        (dp.exists /\ pools[k].exists /\ pools[k].dpName = DPName) => Projected(k)

\* C4: if the DynamicPrefix stops changing, then eventually the projected
\* field of every annotated pool resource that references it equals the block
\* list the pool projection derives from it, and stays equal.
C4_PoolEventuallyProjected == (<>[][dp' = dp]_vars) => <>[]PoolsConverged

\* The reconcile of service s in this step ran to the end of the HA algorithm.
Synced(s) == SvcReconcile(s) /\ svcResult'[s] \in {"updated", "unchanged"}

\* C5: after the HA service controller has reconciled a service of an HA-mode
\* DynamicPrefix with h history entries, lbipam.cilium.io/ips lists exactly
\* 1 + h IPv6 addresses and the first one equals external-dns target.
C5_IPsListCurrentAndHistory ==
    [][\A s \in ServiceNames :
          Synced(s) =>
             /\ Len(services'[s].ips) = 1 + Len(dp.status.history)
             /\ services'[s].ips[1] \in 0..(AddrSpace - 1)
             /\ services'[s].ips[1] = services'[s].target]_vars

\* The service's annotations select a range or subnet the DynamicPrefix defines.
SelectsDefinedRange(s) ==
    IF AddressRangeNameOf(services[s]) # ""
    THEN FindByName(dp.spec.addressRanges, AddressRangeNameOf(services[s])) # 0
    ELSE /\ SubnetNameOf(services[s]) # ""
         /\ FindByName(dp.spec.subnets, SubnetNameOf(services[s])) # 0

PreviousPrefix == dp.status.history[Len(dp.status.history)].prefix

\* C6: in HA mode, once the prefix has changed from A to B, a reconcile of a
\* service that was synced while A was the only prefix (its ips and target are
\* its address inside A) writes a target inside B, and an ips list holding an
\* address inside B and an address inside A.
C6_TargetMovesToNewPrefix ==
    [][\A s \in ServiceNames :
          (/\ Synced(s)
           /\ SelectsDefinedRange(s)
           /\ Len(dp.status.history) >= 1
           /\ Len(dp.status.history) <= MaxHistoryOf(dp.spec)
           /\ services[s].target # NoIP
           /\ services[s].ips = <<services[s].target>>
           /\ Contains(PreviousPrefix, services[s].target))
          => (/\ Contains(dp.status.currentPrefix, services'[s].target)
              /\ \E i \in 1..Len(services'[s].ips) :
                     Contains(dp.status.currentPrefix, services'[s].ips[i])
              /\ \E i \in 1..Len(services'[s].ips) :
                     Contains(PreviousPrefix, services'[s].ips[i]))]_vars

\* C7: a reconcile of a service whose DynamicPrefix is not in transition mode
\* ha (mode simple, or transition unset) leaves the service as it was.
C7_NonHAServiceUntouched ==
    [][\A s \in ServiceNames :
          (SvcReconcile(s) /\ dp.exists /\ dp.spec.mode # "ha") => services'[s] = services[s]]_vars

\* A reconcile has returned at the mode check for a service that has an
\* ingress IP and whose annotations the HA algorithm would have rewritten.
C7_Witness ==
    \E s \in ServiceNames :
        /\ svcResult[s] = "notHA"
        /\ dp.exists /\ dp.spec.mode # "ha"
        /\ services[s].ingress # NoIP
        /\ calculateServiceIPs(dp, services[s], services[s].ingress).ips # services[s].ips

\* C8: a pool reconcile of a resource whose previous reconcile succeeded, with
\* the DynamicPrefix and the resource unchanged since, writes nothing.
C8_SecondRunWritesNothing ==
    [][(\E n \in PoolNames : PoolReconcile(n)) => \A k \in poolSynced : pools'[k] = pools[k]]_vars

\* C9: a reconcile that finds currentPrefix() nil after a lease expiry writes
\* a status with currentPrefix cleared and PrefixAcquired=False/WaitingForPrefix.
C9_ExpiryClearsCurrentPrefix ==
    [][\A w \in Workers :
          (/\ wk[w].pc = "writeStatus"
           /\ wk[w].cur = NoPrefix
           /\ wk'[w].pc = "idle"
           /\ dp'.status # dp.status)
          => (/\ dp'.status.currentPrefix = NoPrefix
              /\ dp'.status.acquired = "WaitingForPrefix")]_vars

\* C10: whenever a receiver places an event on its event stream, a reconcile
\* of the owning DynamicPrefix is enqueued by that step.
C10_EventEnqueuesReconcile ==
    [][\A r \in 1..MaxReceivers : recv'[r].events > recv[r].events => queue']_vars

\* C11: in any sequence of Start and Stop calls on a receiver (Stop before
\* any Start, repeated Stop, Stop after a start-stop-start cycle) every Stop
\* returns ok and none panics.
C11_StopNeverPanics == rxRet # "panic"

\* C12: once Stop has returned on a receiver with a worker (RA, DHCPv6-PD),
\* no step places a further event on the receiver's event stream for as long
\* as it stays stopped.
C12_NoEventAfterStop ==
    [][(rxKind # "mock" /\ ~rxStarted /\ ~rxStarted') => Len(rxEvents') <= Len(rxEvents)]_vars

\* C13: emitting an event never blocks the producer: no producer is ever
\* held in a send on the full event buffer.
C13_EmitNeverBlocks == rxBlocked = NoEvent

\* C14: after a Start that returned ok, also one issued after an earlier
\* Stop, the worker launched by it is running until Stop is called or the
\* cancellation scope is cancelled.
C14_RunningAfterStart ==
    (rxKind # "mock" /\ rxStarted /\ rxGen > 0 /\ rxCtx[rxGen] = "live") => rxPc[rxGen] # "done"

\* C15: every worker has terminated when StopDeadline read-deadline intervals
\* have passed since Stop was called or its cancellation scope was cancelled.
C15_StopsWithinDeadline ==
    \A g \in Gens : rxStopAge[g] >= StopDeadline => rxPc[g] \in {"none", "done"}

\* C16: at the moment the composite receiver emits expired, having handled
\* every event of its children, its CurrentPrefix() is nil.
C16_NilAfterExpired ==
    [][(/\ Len(cEvents') > Len(cEvents)
        /\ cEvents'[Len(cEvents')].type = "expired"
        /\ \A c \in Children : child'[c].events = <<>>)
       => CurrentPrefix' = NoPrefix]_vars

\* C17: in the stream of events a consumer reads from a receiver, a renewed,
\* changed or expired event is read only after an acquired event was read.
C17_AcquiredComesFirst ==
    rxRead.last \in {"renewed", "changed", "expired"} => rxRead.acquired

\* C18: a step in which a receiver takes a new prefix p as its current
\* prefix and places the event for it on the stream classifies the event
\* against the previous current prefix: nil gives acquired, the same network
\* renewed, another network changed.
C18_UpdateClassified ==
    [][\A p \in Prefixes :
          (/\ rxCur' = p
           /\ Len(rxEvents') = Len(rxEvents) + 1
           /\ rxEvents'[Len(rxEvents')].prefix = p)
          => rxEvents'[Len(rxEvents')].type =
                (IF rxCur = NoPrefix THEN "acquired"
                 ELSE IF rxCur = p THEN "renewed" ELSE "changed")]_vars

\* A DHCPv6-PD receiver has renewed its prefix and then been given another
\* one; both events wait on the stream.
C18_Witness ==
    /\ rxKind = "dhcpv6pd"
    /\ Len(rxEvents) = 2
    /\ rxEvents[1].type = "renewed"
    /\ rxEvents[2].type = "changed"

\* The merge loop takes a failed event of the primary from its channel.
PrimaryFailureHandled ==
    /\ \E g \in 1..MaxCompositeStarts : mergeEvents(g)
    /\ child["primary"].events # <<>>
    /\ Head(child["primary"].events).type = "failed"
    /\ child'["primary"].events = Tail(child["primary"].events)

\* C19: when the composite handles the third consecutive failed event of the
\* primary it makes the fallback the active receiver and, if the fallback
\* holds a prefix and the stream has room, emits acquired with that prefix;
\* on the first and the second consecutive failure the active receiver stays.
C19_FailoverOnThirdFailure ==
    [][PrimaryFailureHandled =>
          /\ cFailures = 2 =>
                /\ cActive' = "fallback"
                /\ (child["fallback"].cur # NoPrefix /\ Len(cEvents) < EventBuffer) =>
                      cEvents'[Len(cEvents) + 1] = Event("acquired", child["fallback"].cur)
          /\ cFailures < 2 => cActive' = cActive]_vars

\* The third failure has just been handled: the composite is on the fallback
\* and the stream holds the acquired event for the fallback's prefix followed
\* by the failure.
C19_Witness ==
    /\ cFailures = 3
    /\ cActive = "fallback"
    /\ child["fallback"].cur # NoPrefix
    /\ cEvents = <<Event("acquired", child["fallback"].cur), Failed>>

\* C20: once the composite has failed over on the third consecutive primary
\* failure while the fallback holds a prefix, CurrentPrefix() returns the
\* fallback's prefix.
C20_CurrentPrefixIsFallback ==
    [][(PrimaryFailureHandled /\ cFailures = 2 /\ child["fallback"].cur # NoPrefix)
       => CurrentPrefix' = child'["fallback"].cur]_vars

\* The merge loop takes an acquired, renewed or changed event of the primary
\* from its channel.
PrimarySuccessHandled ==
    /\ \E g \in 1..MaxCompositeStarts : mergeEvents(g)
    /\ child["primary"].events # <<>>
    /\ Head(child["primary"].events).type \in {"acquired", "renewed", "changed"}
    /\ child'["primary"].events = Tail(child["primary"].events)

PrimaryExpiredHandled ==
    /\ \E g \in 1..MaxCompositeStarts : mergeEvents(g)
    /\ child["primary"].events # <<>>
    /\ Head(child["primary"].events).type = "expired"
    /\ child'["primary"].events = Tail(child["primary"].events)

\* C28: when the composite handles an expired event of the primary and the
\* fallback holds a prefix, the fallback becomes active and acquired with the
\* fallback's prefix is placed on the stream (the expired event is not);
\* when the fallback holds none, the expired event is placed on the stream
\* as it came and the active receiver stays.  A full stream drops the event.
C28_PrimaryExpiryFailsOver ==
    [][PrimaryExpiredHandled =>
          IF child["fallback"].cur # NoPrefix
          THEN /\ cActive' = "fallback"
               /\ cEvents' = IF Len(cEvents) < EventBuffer
                             THEN Append(cEvents, Event("acquired", child["fallback"].cur))
                             ELSE cEvents
          ELSE /\ cActive' = cActive
               /\ cEvents' = IF Len(cEvents) < EventBuffer
                             THEN Append(cEvents, Head(child["primary"].events))
                             ELSE cEvents]_vars

\* The primary's prefix has expired with no failure counted, the composite
\* is on the fallback and the last event on the stream announces the
\* fallback's prefix.
C28_Witness ==
    /\ cActive = "fallback"
    /\ cFailures = 0
    /\ child["primary"].cur = NoPrefix
    /\ child["primary"].events = <<>>
    /\ child["fallback"].cur # NoPrefix
    /\ cEvents # <<>>
    /\ cEvents[Len(cEvents)] = Event("acquired", child["fallback"].cur)

\* The merge loop takes an event of the fallback from its channel.
FallbackEventHandled ==
    /\ \E g \in 1..MaxCompositeStarts : mergeEvents(g)
    /\ child["fallback"].events # <<>>
    /\ child'["fallback"].events = Tail(child["fallback"].events)

\* C29: an event of the fallback is placed on the composite's stream only if
\* the fallback is the active receiver when the event is handled; while the
\* primary is active the stream is left as it is.
C29_FallbackForwardedOnlyWhenActive ==
    [][FallbackEventHandled =>
          /\ cActive # "fallback" => cEvents' = cEvents
          /\ cEvents' # cEvents =>
                /\ cActive = "fallback"
                /\ cEvents' = Append(cEvents, Head(child["fallback"].events))]_vars

\* The fallback has acquired a prefix while the primary was active and never
\* held one: its event was taken from its channel and the stream is empty.
C29_Witness ==
    /\ cStarted
    /\ cActive = "primary"
    /\ cFailures = 0
    /\ child["primary"].cur = NoPrefix
    /\ child["fallback"].cur # NoPrefix
    /\ child["fallback"].events = <<>>
    /\ child["primary"].events = <<>>
    /\ cEvents = <<>>

\* C23: a reconcile that reads from its receiver the network already stored
\* in status.currentPrefix and writes the status adds no entry to
\* status.history (the history is left exactly as it was).
C23_SameNetworkAddsNoHistory ==
    [][\A w \in Workers :
          (/\ wk[w].pc = "writeStatus"
           /\ wk[w].cur # NoPrefix
           /\ wk[w].cur = dp.status.currentPrefix
           /\ wk'[w].pc = "idle")
          => dp'.status.history = dp.status.history]_vars

\* A reconcile holding an up-to-date snapshot has read from its receiver the
\* network the status already shows, after an earlier change of prefix has
\* left an entry in the history, and is about to write the status.
C23_Witness ==
    \E w \in Workers :
        /\ wk[w].pc = "writeStatus"
        /\ ~wk[w].stale
        /\ wk[w].cur # NoPrefix
        /\ wk[w].cur = dp.status.currentPrefix
        /\ dp.status.acquired = "PrefixAcquired"
        /\ Len(dp.status.history) >= 1

\* The address-range statuses of prefix cur: one entry for every range of
\* the spec that CalculateAddressRange computes without error.
RECURSIVE AddressRangeStatuses(_, _)
AddressRangeStatuses(cur, specs) ==
    IF specs = <<>> THEN <<>>
    ELSE LET r == CalculateAddressRange(cur, Head(specs))
         IN  (IF r.err = ""
              THEN <<[name |-> Head(specs).name, start |-> r.start, end |-> r.end,
                      cidr |-> RangeToCIDR(r.start, r.end)]>>
              ELSE <<>>) \o AddressRangeStatuses(cur, Tail(specs))

\* C24: the status written by a reconcile that found a current prefix holds
\* in status.addressRanges one entry (name, start, end, cidr) for every
\* spec.addressRanges entry whose computation succeeds, computed on the
\* current prefix.
C24_AddressRangesProjected ==
    [][PrefixReconciled =>
          dp'.status.addressRanges =
              AddressRangeStatuses(dp'.status.currentPrefix, dp.spec.addressRanges)]_vars

\* C25: a call of CalculateSubnet whose target address, base.network +
\* offset * 2^(width - prefixLength), lies outside base returns the
\* SubnetOutsideParent failure, and no call returns a subnet whose network
\* address lies outside base.
C25_SubnetStaysInParent ==
    (/\ subnetResult # NotCalled
     /\ subnetArgs.cfg.prefixLength >= subnetArgs.base.bits
     /\ subnetArgs.cfg.prefixLength <= AddrBits)
    => LET base   == subnetArgs.base
           target == base.addr + subnetArgs.cfg.offset * 2 ^ (AddrBits - subnetArgs.cfg.prefixLength)
       IN  /\ (target >= AddrSpace \/ MaskAddr(target, base.bits) # base.addr)
                 => subnetResult.err = "SubnetOutsideParent"
           /\ subnetResult.err = ""
                 => MaskAddr(subnetResult.cidr.addr, base.bits) = base.addr

\* C26: the factory's result is the function of the acquisition spec the
\* decision table gives: composite (primary DHCPv6-PD, fallback RA) for
\* DHCPv6-PD with an enabled RA block, DHCPv6-PD alone when RA is absent or
\* disabled, RA for an enabled RA block alone, a failure for neither, and a
\* failure when a selected method has an empty interface.
C26_FactoryDecisionTable ==
    created # NotCalled =>
       LET pd     == acquisition.dhcpv6pd.present
           ra     == acquisition.routerAdvertisement.present /\ acquisition.routerAdvertisement.enabled
           pdBad  == pd /\ acquisition.dhcpv6pd.interface = ""
           raBad  == ra /\ acquisition.routerAdvertisement.interface = ""
       IN  /\ (~pd /\ ~ra) => created.err # ""
           /\ (pdBad \/ raBad) => created.err # ""
           /\ (pd /\ ra /\ ~pdBad /\ ~raBad) =>
                 (created.err = "" /\ created.kind = "composite"
                  /\ created.primary = "dhcpv6pd" /\ created.fallback = "ra")
           /\ (pd /\ ~ra /\ ~pdBad) => (created.err = "" /\ created.kind = "dhcpv6pd")
           /\ (~pd /\ ra /\ ~raBad) => (created.err = "" /\ created.kind = "ra")

\* The factory has been called with a DHCPv6-PD block and a disabled RA block
\* that has no interface name, and has returned a DHCPv6-PD receiver.
C26_Witness ==
    /\ created # NotCalled
    /\ acquisition.dhcpv6pd.present
    /\ acquisition.routerAdvertisement.present
    /\ ~acquisition.routerAdvertisement.enabled
    /\ acquisition.routerAdvertisement.interface = ""
    /\ created.err = ""
    /\ created.kind = "dhcpv6pd"

\* C21: every lease the DHCPv6-PD receiver records satisfies
\* 0 < T1 <= T2 <= ValidLifetime, whatever T1, T2 and lifetimes the REPLY
\* carries.
C21_LeaseTimersOrdered ==
    pdLease # NoLease =>
       (0 < pdLease.T1 /\ pdLease.T1 <= pdLease.T2 /\ pdLease.T2 <= pdLease.ValidLifetime)

\* C22: while the receiver holds a lease, an exchange that ends with a REPLY
\* whose IA_PD has a non-success status code, or whose IA_PD prefixes all have
\* valid lifetime zero, emits failed, emits no acquired, renewed or changed,
\* and leaves the current prefix and the lease as they were.
C22_BadReplyKeepsLease ==
    [][(/\ pdLease # NoLease
        /\ pdPc \in {"renew", "rebind"}
        /\ pdPc' # pdPc
        /\ pdLast' \in {"status", "zeroLifetimes"})
       => (/\ pdSent' # <<>>
           /\ pdSent'[1] = "failed"
           /\ \A i \in 1..Len(pdSent') : pdSent'[i] \notin {"acquired", "renewed", "changed"}
           /\ pdCur' = pdCur
           /\ pdLease' = pdLease)]_vars

\* C30: the receiver emits expired, and clears the current prefix, only when
\* the time since the ReceivedAt of the lease is at least its ValidLifetime.
C30_ExpiryOnlyAfterValidLifetime ==
    [][(/\ pdLease # NoLease
        /\ \/ \E i \in 1..Len(pdSent') : pdSent'[i] = "expired" /\ pdPc' # pdPc
           \/ pdCur' = NoPrefix)
       => pdAge' >= pdLease.ValidLifetime]_vars

\* C38: once the composite is on the fallback, a further failed event of the
\* primary is forwarded as failed and no further acquired event is placed on
\* the stream.
C38_OneAcquiredPerFailover ==
    [][(PrimaryFailureHandled /\ cActive = "fallback")
       => \A i \in (Len(cEvents) + 1)..Len(cEvents') : cEvents'[i].type # "acquired"]_vars

C35_LiveReceiverKept ==
    [][(/\ dp.exists
        /\ ~dp.deleting
        /\ receivers # 0
        /\ recv[receivers].state = "running")
       => (receivers' = receivers /\ recv'[receivers].state = "running")]_vars

\* C36: the prefix in status.currentPrefix is never also the prefix of an
\* entry of status.history.
C36_CurrentNotInHistory ==
    dp.exists =>
       \A i \in 1..Len(dp.status.history) :
          dp.status.history[i].prefix # dp.status.currentPrefix

\* The configurations the pool projection can derive from prefix p: the raw
\* prefix, a subnet of the spec computed from p, a range of the spec computed
\* from p.
ConfigsDerivedFrom(d, p) ==
    {CIDRConfig(p)}
       \cup UNION {{c.configs[i] : i \in 1..Len(c.configs)} :
                     c \in {calculateSubnetConfig(p, d.spec.subnets[i]) : i \in 1..Len(d.spec.subnets)}}
       \cup UNION {{c.configs[i] : i \in 1..Len(c.configs)} :
                     c \in {calculateAddressRangeConfig(p, d.spec.addressRanges[i]) :
                               i \in 1..Len(d.spec.addressRanges)}}

BlocksDerivedFrom(kind, d, p) ==
    {ProjectedField(kind, <<c>>)[1] : c \in ConfigsDerivedFrom(d, p)}

\* C33: the block list a pool projection writes has the block derived from
\* status.currentPrefix first, and after it at most maxPrefixHistory blocks,
\* each derived from an entry of status.history.
C33_CurrentBlockFirst ==
    [][\A k \in PoolKeys :
          (k \in poolSynced' /\ (k \notin poolSynced \/ pools'[k] # pools[k]))
          => LET blocks == pools'[k].blocks
             IN  /\ Len(blocks) >= 1
                 /\ blocks[1] \in BlocksDerivedFrom(k.kind, dp, dp.status.currentPrefix)
                 /\ Len(blocks) - 1 <= MaxHistoryOf(dp.spec)
                 /\ \A i \in 2..Len(blocks) :
                       \E h \in 1..Len(dp.status.history) :
                          blocks[i] \in BlocksDerivedFrom(k.kind, dp, dp.status.history[h].prefix)]_vars

\* C37: every entry of status.subnets is a subnet of the spec computed from
\* status.currentPrefix and lies inside it.
C37_SubnetsOfCurrentPrefix ==
    (dp.exists /\ dp.status.currentPrefix # NoPrefix) =>
       \A i \in 1..Len(dp.status.subnets) :
          /\ dp.status.subnets[i].cidr.bits >= dp.status.currentPrefix.bits
          /\ Contains(dp.status.currentPrefix, dp.status.subnets[i].cidr.addr)
          /\ \E j \in 1..Len(dp.spec.subnets) :
                /\ dp.spec.subnets[j].name = dp.status.subnets[i].name
                /\ CalculateSubnet(dp.status.currentPrefix, dp.spec.subnets[j]) =
                      [err |-> "", cidr |-> dp.status.subnets[i].cidr]

\* C39: every address a reconcile of the HA service controller writes into
\* the ips annotation lies inside status.currentPrefix or inside the prefix
\* of an entry of status.history.
C39_IPsInsideKnownPrefixes ==
    [][\A s \in ServiceNames :
          Synced(s) =>
             \A i \in 1..Len(services'[s].ips) :
                \/ Contains(dp.status.currentPrefix, services'[s].ips[i])
                \/ \E h \in 1..Len(dp.status.history) :
                      Contains(dp.status.history[h].prefix, services'[s].ips[i])]_vars

\* C31: the step that sends expired leaves the worker without a lease at the
\* top of its loop; a worker without a lease always comes to make another
\* acquisition attempt; and the first successful acquisition after an expiry
\* sends acquired and makes the current prefix non-nil.
C31_ReacquiresAfterExpiry ==
    /\ [][(\E i \in 1..Len(pdSent') : pdSent'[i] = "expired")
          => (pdLease' = NoLease /\ pdCur' = NoPrefix /\ pdPc' = "check")]_vars
    /\ [][(pdExpired /\ pdCur = NoPrefix /\ pdLast' = "valid")
          => (pdSent' = <<"acquired">> /\ pdCur' # NoPrefix /\ pdLease' # NoLease)]_vars
    /\ ((pdExpired /\ pdLease = NoLease) ~> (pdPc = "acquire"))

\* The worker has sent expired before and its latest acquisition attempt
\* succeeded.
C31_Witness ==
    /\ pdExpired
    /\ pdLast = "valid"
    /\ pdSent = <<"acquired">>
    /\ pdCur # NoPrefix
    /\ pdLease # NoLease

\* A Prefix Information option that is on-link and has a valid lifetime
\* above zero.
Eligible(pi) == pi.onLink /\ pi.validLifetime > 0

FirstEligible(options, firstBytes) ==
    IF \E i \in 1..Len(options) : Eligible(options[i]) /\ options[i].firstByte \in firstBytes
    THEN CHOOSE i \in 1..Len(options) :
            /\ Eligible(options[i]) /\ options[i].firstByte \in firstBytes
            /\ \A j \in 1..(i - 1) : ~(Eligible(options[j]) /\ options[j].firstByte \in firstBytes)
    ELSE 0

\* C34: the option the RA receiver selects from a Router Advertisement is
\* the first global unicast option that is on-link with a non-zero valid
\* lifetime, else the first such unique local option, whatever the
\* autonomous-address-configuration flags of the options are.
C34_AutonomousFlagIgnored ==
    selected # NotCalled =>
       selected.index = IF FirstEligible(advertisement, {32}) # 0
                        THEN FirstEligible(advertisement, {32})
                        ELSE FirstEligible(advertisement, {253})

\* A thread that has called Lock or RLock and cannot get the mutex, with
\* the threads it waits for: the holders and, for a reader, the writers
\* that are ahead of it.
Blocked(t) == Waiting(lk, t) /\ ~CanAcquire(lk, t)

Blockers(t) ==
    LET l == Wanted(lk, t)
    IN  {u \in Threads : lk.writer[l] = u \/ u \in lk.readers[l]}
           \cup (IF lk.pc[t].op \in ReadLockOps THEN PendingWriters(lk, l) \ {t} ELSE {})

\* The threads that can run, or wait only for threads that come to run.
RECURSIVE ComeToRun(_, _)
ComeToRun(S, n) ==
    IF n = 0 THEN S
    ELSE ComeToRun(S \cup {t \in Threads : Blocked(t) /\ Blockers(t) \subseteq S}, n - 1)

\* C40: in every state reached by start, stop, currentPrefix, source, the
\* event handlers and the registry operations, every thread that waits for
\* a mutex waits for threads that are not themselves waiting for it: no
\* set of threads waits in a cycle, so no call blocks forever.
C40_NoDeadlock ==
    ComeToRun({t \in Threads : ~Blocked(t)}, Cardinality(Threads)) = Threads

\* A reconcile stops the composite while it holds the registry's lock, the
\* other reconcile waits for the registry and the composite's mergeEvents
\* waits for the composite's mutex with an event of the primary.
C40_Witness ==
    \E a, b \in CallerThreads, m \in MergeThreads :
        /\ lk.pc[a].op \in {"stopPrimary", "stopFallback"}
        /\ lk.pc[b] = At("lookup")
        /\ lk.pc[m] = At("primaryEvent")
        /\ Blocked(b)
        /\ Blocked(m)

====
